---- MODULE Spec2Model ----
(***************************************************************************)
(* Verification model of the live performance engine of AI-theater:        *)
(* StageManager (chat_server.py), MemoryBank (core/actor/memory_bank.py),  *)
(* PerformanceBlackboard (core/state/performance_blackboard.py) and the    *)
(* God-Mode queue.  One scene is the execution of                          *)
(* StageManager._handle_event_step for one script event.                   *)
(*                                                                         *)
(* The scheduler is one asyncio task; an action of the model is the code   *)
(* that runs between two awaits.  pc names the await the task is parked    *)
(* at:                                                                     *)
(*   "start"    _handle_event_step has been called for the event           *)
(*   "head"     about to evaluate the turn loop's while condition          *)
(*   "skip"     inside `await asyncio.sleep(0.1)` of the anti-monopoly skip*)
(*   "pause"    inside `await asyncio.sleep(0.5)` of the pause gate        *)
(*   "applying" inside the broadcast await of _apply_god_action            *)
(*   "drain"    an injected item has been applied, queue is re-checked     *)
(*   "thinking" inside the "thinking" broadcast await before the call     *)
(*   "gateway"  inside `await asyncio.to_thread(crew_actor.perform, ...)`  *)
(*   "post"     the turn loop has exited (SCENE_ENDED)                     *)
(***************************************************************************)
EXTENDS Integers, Sequences, FiniteSets, TLC

\* ------------------------------------------------------------------ bounds
MaxTurns == 4          \* largest max_turns of a script event in the model
MaxInject == 3         \* number of God-Mode injections in one behaviour
GodTurns == 3          \* largest max_turns of a scene with injections
MaxContentLen == 5     \* longest decision content (in tokens) fed to IsPass
MaxScript == 2         \* longest script handed to initialize()
MaxControl == 2        \* jump() and initialize() calls in one behaviour
MaxAdds == 12          \* add calls made on one MemoryBank
MaxDialogue == 4       \* add_dialogue calls made on one Blackboard
MaxQueued == 2         \* inject requests in a performance under full control
MaxUser == 1           \* user messages received in one behaviour

\* --------------------------------------------------------------- constants
MaxShortTerm == 10     \* MemoryBank._max_short_term
RecentLimit == 5       \* m_bank.get_recent(5)
HistoryWindow == 5     \* scene_chat_history[-5:]
MonopolyCap == 2       \* consecutive_speech_count >= 2
LowWillingness == 3    \* willingness < 3 and "[PASS]" in content

\* self.actors after initialize(): the registry, in dict (insertion) order
ActorOrder == <<"A", "B", "C">>
ActorNames == {ActorOrder[i] : i \in 1..Len(ActorOrder)}
NoSpeaker == "None"

VARIABLES
  \* --- StageManager fields
  is_playing, is_fresh_start, eventQueue, actor_memories,
  active_scene_chat_history, blackboard_dialogue,
  \* --- the script event being played
  characters, max_turns,
  \* --- locals of _handle_event_step
  pc, active_actors, current_turn, scene_ended, last_speaker_idx,
  consecutive_silence_count, prev_speaker_name, consecutive_speech_count,
  char_name, context, ext_event,
  \* --- God-Mode requests awaiting the GodDirector call
  inflight, next_inject,
  \* --- observation of the run (history variables, never read by the code)
  turns_executed, pass_streak, passed_since_speak, end_reason, speak_turns,
  last_turn, due, due_at_turn, enq_log, deq_log,
  write_log, queue_at_select,
  \* --- the willingness decision table
  w_in, content_in, is_pass_out,
  \* --- _main_loop: the script, the cursor and the position of the loop task
  script_len, current_index, mpc, current_event, m_bank_current,
  \* --- observation of the control surface (history variables)
  jump_target, dispatch_obs, ctl_calls, paused_calls, stop_during_call,
  \* --- the retrying LLM call
  r_fn, r_pc, r_attempt, r_result, r_calls, r_sleeps, r_wait, r_jitter,
  r_last_outcome,
  \* --- the calls made on one MemoryBank / one Blackboard (history variables)
  mem_added, dlg_added,
  \* --- the script and the registries of StageManager
  script, actors, llm_clients, crew_actors,
  \* --- locals of the post-scene analysis and of _invoke_director_adaptation
  summary, next_event_idx, user_pc, user_msgs,
  \* --- the adapt_script calls made (history variable)
  adapt_log

stageVars == <<is_playing, is_fresh_start, eventQueue, actor_memories,
               active_scene_chat_history, blackboard_dialogue>>
eventVars == <<characters, max_turns>>
sceneVars == <<pc, active_actors, current_turn, scene_ended, last_speaker_idx,
               consecutive_silence_count, prev_speaker_name,
               consecutive_speech_count, char_name, context, ext_event>>
godVars == <<inflight, next_inject>>
obsVars == <<turns_executed, pass_streak, passed_since_speak, end_reason,
             speak_turns, last_turn, due, due_at_turn,
             enq_log, deq_log, write_log, queue_at_select>>
tableVars == <<w_in, content_in, is_pass_out>>
loopVars == <<script_len, current_index, mpc, current_event, m_bank_current>>
jumpObs == <<jump_target, dispatch_obs, ctl_calls>>
ctlObs == <<jumpObs, paused_calls, stop_during_call>>
retryVars == <<r_fn, r_pc, r_attempt, r_result, r_calls, r_sleeps, r_wait,
               r_jitter, r_last_outcome>>
unitObs == <<mem_added, dlg_added>>
registryVars == <<actors, llm_clients, crew_actors>>
postVars == <<summary, next_event_idx, adapt_log>>
userVars == <<user_pc, user_msgs>>
showVars == <<script, registryVars, postVars, userVars>>
vars == <<stageVars, eventVars, sceneVars, godVars, obsVars, tableVars,
          loopVars, ctlObs, retryVars, unitObs, showVars>>

\* ------------------------------------------------------------ text values
(* A text is a sequence of tokens: an ordinary character "x", a blank " ",  *)
(* or one of the markers the scheduler searches for.                        *)
PassMarker == "[PASS]"
RevokeMarker == "[REVOKE]"
Tokens == {"x", " ", PassMarker}

\* len(): the number of characters of a text
TokenLen(t) == IF t = PassMarker THEN 6 ELSE IF t = RevokeMarker THEN 8 ELSE 1

RECURSIVE CharLen(_)
CharLen(s) == IF s = <<>> THEN 0 ELSE TokenLen(Head(s)) + CharLen(Tail(s))

\* `marker in text`
Contains(s, t) == \E i \in 1..Len(s) : s[i] = t

\* str.strip(): drop leading and trailing blanks
RECURSIVE LStrip(_)
LStrip(s) == IF s # <<>> /\ Head(s) = " " THEN LStrip(Tail(s)) ELSE s

RECURSIVE RStrip(_)
RStrip(s) ==
  IF s # <<>> /\ s[Len(s)] = " " THEN RStrip(SubSeq(s, 1, Len(s) - 1)) ELSE s

Strip(s) == RStrip(LStrip(s))

\* all texts of at most n tokens
RECURSIVE TextsUpTo(_)
TextsUpTo(n) ==
  IF n = 0 THEN {<<>>}
  ELSE LET shorter == TextsUpTo(n - 1)
       IN shorter \cup {Append(s, t) : s \in {u \in shorter : Len(u) = n - 1},
                                        t \in Tokens}

\* ------------------------------------------------ the willingness decision
\* chat_server.py 577-582: is_pass
IsPass(content, action, willingness) ==
  \/ Strip(content) = <<PassMarker>>
  \/ (willingness < LowWillingness /\ Contains(content, PassMarker))
  \/ (Strip(content) = <<>> /\ Strip(action) = <<>>)

\* tests/test_willingness_loop.py 47-49, 62-64, 78-80: is_silence
TestIsSilence(w, content) ==
  Contains(content, PassMarker) \/ (w < 4 /\ CharLen(content) < 5)

\* chat_server.py 607: "[撤回]" in content or "[REVOKE]" in content or ...
IsRevoke(content, action) ==
  Contains(content, RevokeMarker) \/ Contains(action, RevokeMarker)

\* ------------------------------------------------------------- MemoryBank
\* (mutation of add_short_term: at capacity the newest entry is dropped)
add_short_term_pop_last(short_term, entry) ==
  LET appended == Append(short_term, entry)
  IN IF Len(appended) > MaxShortTerm
       THEN SubSeq(appended, 1, Len(appended) - 1) ELSE appended

\* memory_bank.py 16-20 (add is its alias, 26-28)
add_short_term(short_term, entry) ==
  LET appended == Append(short_term, entry)
  IN IF Len(appended) > MaxShortTerm THEN Tail(appended) ELSE appended

\* s[-n:]
LastN(s, n) == IF Len(s) <= n THEN s ELSE SubSeq(s, Len(s) - n + 1, Len(s))

\* memory_bank.py 30-35: the entries the formatted view is built from
get_recent(short_term, limit) == LastN(short_term, limit)

\* ------------------------------------------------------------- Blackboard
(* The dialogue log of PerformanceBlackboard.  chat_server.py calls        *)
(* add_dialogue, remove_last_dialogue and get_recent_dialogue_struct, and   *)
(* tests/test_blackboard_integration.py exercises them, but the class in    *)
(* core/state/performance_blackboard.py does not define them; they are      *)
(* modelled from the specification (append-only log, last-N view).         *)
add_dialogue(log, speaker, content) ==
  Append(log, [speaker |-> speaker, content |-> content])

\* (mutation of get_recent_dialogue_struct: the first n entries)
get_first_dialogue_struct(log, n) ==
  IF Len(log) <= n THEN log ELSE SubSeq(log, 1, n)

get_recent_dialogue_struct(log, n) ==
  IF Len(log) <= n THEN log ELSE SubSeq(log, Len(log) - n + 1, Len(log))

\* "\n".join(...) of texts
RECURSIVE JoinLines(_)
JoinLines(lines) ==
  IF lines = <<>> THEN <<>>
  ELSE IF Len(lines) = 1 THEN lines[1]
  ELSE lines[1] \o <<"\n">> \o JoinLines(Tail(lines))

\* the flattened view: one "speaker: content" line per entry
get_recent_dialogue(log, n) ==
  LET recent == get_recent_dialogue_struct(log, n)
  IN JoinLines([i \in 1..Len(recent) |->
                  <<recent[i].speaker, ": ">> \o recent[i].content])

\* drop the last entry of the given speaker, if there is one
remove_last_dialogue(log, speaker) ==
  LET own == {i \in 1..Len(log) : log[i].speaker = speaker}
  IN IF own = {} THEN log
     ELSE LET k == CHOOSE i \in own : \A j \in own : j <= i
          IN SubSeq(log, 1, k - 1) \o SubSeq(log, k + 1, Len(log))

\* chat_server.py 616-621: full_msg
FullMsg(content, action) ==
  IF content # <<>> /\ action # <<>>
    THEN content \o <<" ", "(">> \o action \o <<")">>
  ELSE IF action # <<>> THEN <<"(">> \o action \o <<")">>
  ELSE content

\* ---------------------------------------------------------- cast of a scene
\* chat_server.py 480-485: the participants that are registered actors,
\* falling back to every registered actor
ActiveActors(chars) ==
  LET matching == SelectSeq(chars, LAMBDA c : c \in ActorNames)
  IN IF matching = <<>> THEN ActorOrder ELSE matching

SeqElems(s) == {s[i] : i \in 1..Len(s)}

\* ------------------------------------------------- inputs of one behaviour
\* event_data.characters after the split of line 463
Casts == {<<"A">>, <<"A", "B">>, <<"Nobody">>}

\* what crew_actor.perform can return (crew_actor.py 142-159)
Decision(c, a, f, w) ==
  [content |-> c, action |-> a, is_finished |-> f, willingness |-> w]

SceneDecisions ==
  {Decision(<<"x">>, <<>>, f, 9) : f \in BOOLEAN}
    \cup {Decision(<<PassMarker>>, <<>>, f, 0) : f \in BOOLEAN}
    \cup {Decision(<<RevokeMarker>>, <<>>, FALSE, 9),
          Decision(<<>>, <<"x">>, FALSE, 9)}

\* the decisions sampled in the scenes with injections: a line, a pass
GodSceneDecisions ==
  {Decision(<<"x">>, <<>>, FALSE, 9), Decision(<<PassMarker>>, <<>>, FALSE, 0)}

\* ------------------------------------------------------- CrewActor.perform
(* What happens inside perform once the task is built: crew.kickoff() raises *)
(* ("raised"), returns output that carries neither a parsed model nor a JSON *)
(* dict ("unparsed"), or returns a parsed decision ("parsed").               *)
NoDecision == Decision(<<>>, <<>>, FALSE, 0)
FailureOutcomes ==
  {[kind |-> "raised", decision |-> NoDecision],
   [kind |-> "unparsed", decision |-> NoDecision]}

\* (mutation of perform: the error fallback has an empty content instead of
\* the pass marker)
performEmptyFallback(outcome) ==
  IF outcome.kind = "parsed" THEN outcome.decision
  ELSE IF outcome.kind = "raised"
    THEN Decision(<<>>, <<"x", " ", "x">>, FALSE, 0)
  ELSE Decision(<<PassMarker>>, <<>>, FALSE, 0)

\* crew_actor.py 142-159; the action text "stays silent (error)" of the
\* except branch is the text <<"x", " ", "x">>
perform(outcome) ==
  IF outcome.kind = "parsed" THEN outcome.decision
  ELSE IF outcome.kind = "raised"
    THEN Decision(<<PassMarker>>, <<"x", " ", "x">>, FALSE, 0)
  ELSE Decision(<<PassMarker>>, <<>>, FALSE, 0)

NoTurn == [speaker |-> NoSpeaker, resolved |-> "none", is_finished |-> FALSE,
           duplicate |-> FALSE]
NoContext == [memories |-> <<>>, chat_history |-> <<>>]
NoItem == [id |-> 0, announcement |-> FALSE, instructions |-> {},
           memory_updates |-> {}]

\* --------------------------------------------------------------- initially
(* The state in which _main_loop calls _handle_event_step(current_event):   *)
(* initialize() and start() have run, so every registered actor has an     *)
(* empty MemoryBank, is_playing and is_fresh_start are set.                 *)
InitStage ==
  /\ is_playing = TRUE
  /\ is_fresh_start = TRUE
  /\ eventQueue = <<>>
  /\ actor_memories = [a \in ActorNames |-> <<>>]
  /\ active_scene_chat_history = <<>>
  /\ blackboard_dialogue = <<>>

InitScene ==
  /\ pc = "start"
  /\ active_actors = <<>>
  /\ current_turn = 0
  /\ scene_ended = FALSE
  /\ last_speaker_idx = -1
  /\ consecutive_silence_count = 0
  /\ prev_speaker_name = NoSpeaker
  /\ consecutive_speech_count = 0
  /\ char_name = NoSpeaker
  /\ context = NoContext
  /\ ext_event = NoItem

InitGod ==
  /\ inflight = {}
  /\ next_inject = 1

InitObs ==
  /\ turns_executed = 0
  /\ pass_streak = 0
  /\ passed_since_speak = {}
  /\ end_reason = "none"
  /\ speak_turns = <<>>
  /\ last_turn = NoTurn
  /\ due = [a \in ActorNames |-> {}]
  /\ due_at_turn = {}
  /\ enq_log = <<>>
  /\ deq_log = <<>>
  /\ write_log = <<>>
  /\ queue_at_select = 0

InitTable ==
  /\ w_in = 0
  /\ content_in = <<>>
  /\ is_pass_out = "none"

\* the main loop has dispatched the only event of a one-event script
InitLoop ==
  /\ script_len = 1
  /\ current_index = 0
  /\ mpc = "scene"
  /\ current_event = 0
  /\ m_bank_current = TRUE

NoDispatch == [event |-> -1, after_jump |-> -1]

InitCtl ==
  /\ jump_target = -1
  /\ dispatch_obs = NoDispatch
  /\ ctl_calls = 0
  /\ paused_calls = 0
  /\ stop_during_call = FALSE

\* no retrying call is being made
InitRetry ==
  /\ r_fn = "none"
  /\ r_pc = "idle"
  /\ r_attempt = 0
  /\ r_result = "none"
  /\ r_calls = 0
  /\ r_sleeps = 0
  /\ r_wait = 0
  /\ r_jitter = 0
  /\ r_last_outcome = [cls |-> "none", text |-> <<>>, bad_request |-> FALSE]

InitUnit ==
  /\ mem_added = <<>>
  /\ dlg_added = <<>>

\* chat_server.py 811-819, api_init: a script event; the model keeps the
\* fields adaptation and time_travel can touch and three that they must not
Event(k) ==
  [timeline |-> <<"T", k>>, event |-> <<"E", k>>,
   description |-> <<"D", k>>, goal |-> <<"G", k>>,
   characters |-> <<"A", "B">>, location |-> <<"L", k>>, max_turns |-> 1]

\* InitRequest.script with n events
ScriptOf(n) == [k \in 1..n |-> Event(k)]

\* the registries after initialize(): one entry per registered actor; no
\* post-scene analysis and no user message is under way
InitBackstage ==
  /\ actors = ActorNames
  /\ llm_clients = ActorNames
  /\ crew_actors = ActorNames
  /\ summary = <<>>
  /\ next_event_idx = -1
  /\ adapt_log = <<>>
  /\ user_pc = "idle"
  /\ user_msgs = 0

InitShow == script = ScriptOf(1) /\ InitBackstage

InitRest == InitLoop /\ InitCtl /\ InitRetry /\ InitUnit /\ InitShow

Init ==
  /\ InitStage /\ InitScene /\ InitGod /\ InitObs /\ InitTable /\ InitRest
  /\ characters \in Casts
  /\ max_turns \in 0..MaxTurns

\* ------------------------------------------------ _handle_event_step: entry
\* chat_server.py 433-498
StartScene ==
  /\ pc = "start"
  /\ IF is_fresh_start
       THEN /\ is_fresh_start' = FALSE
            /\ UNCHANGED active_scene_chat_history
       ELSE /\ active_scene_chat_history' = <<>>
            /\ UNCHANGED is_fresh_start
  /\ active_actors' = ActiveActors(characters)
  /\ current_turn' = 0
  /\ scene_ended' = FALSE
  /\ last_speaker_idx' = -1
  /\ consecutive_silence_count' = 0
  /\ prev_speaker_name' = NoSpeaker
  /\ consecutive_speech_count' = 0
  /\ pc' = "head"
  /\ UNCHANGED <<is_playing, eventQueue, actor_memories, blackboard_dialogue,
                 char_name, context, ext_event>>
  /\ UNCHANGED <<eventVars, godVars, obsVars, tableVars>>
  /\ UNCHANGED <<loopVars, ctlObs, retryVars, unitObs, showVars>>

\* ------------------------------------------- positions inside the turn loop
\* chat_server.py 500: while current_turn < max_turns and not scene_ended
LoopCond == current_turn < max_turns /\ ~scene_ended

\* at the pause check of line 502
AtPauseGate == (pc = "head" /\ LoopCond) \/ pc = "pause"

\* (mutation of AtDrain: the pause check of line 502 is missing)
AtDrainOpen == AtPauseGate \/ pc = "drain"

\* at the queue check of line 506
AtDrain == (AtPauseGate /\ is_playing) \/ pc = "drain"

\* at the speaker selection of line 529: the queue check found it empty
AtSelect == AtDrain /\ eventQueue = <<>>

\* chat_server.py 500, 658: the loop condition fails, the scene is over
ExitLoop ==
  /\ pc = "head"
  /\ ~LoopCond
  /\ pc' = "post"
  /\ end_reason' = IF scene_ended THEN end_reason ELSE "max_turns"
  /\ UNCHANGED <<active_actors, current_turn, scene_ended, last_speaker_idx,
                 consecutive_silence_count, prev_speaker_name,
                 consecutive_speech_count, char_name, context, ext_event>>
  /\ UNCHANGED <<turns_executed, pass_streak, passed_since_speak, speak_turns,
                 last_turn, due, due_at_turn, enq_log,
                 deq_log, write_log, queue_at_select>>
  /\ UNCHANGED <<stageVars, eventVars, godVars, tableVars>>
  /\ UNCHANGED <<loopVars, ctlObs, retryVars, unitObs, showVars>>

\* chat_server.py 502-503: while not self.is_playing: await asyncio.sleep(0.5)
PauseGate ==
  /\ AtPauseGate
  /\ ~is_playing
  /\ pc' = "pause"
  /\ UNCHANGED <<active_actors, current_turn, scene_ended, last_speaker_idx,
                 consecutive_silence_count, prev_speaker_name,
                 consecutive_speech_count, char_name, context, ext_event>>
  /\ UNCHANGED <<stageVars, eventVars, godVars, obsVars, tableVars>>
  /\ UNCHANGED <<loopVars, ctlObs, retryVars, unitObs, showVars>>

\* ------------------------------------------------------ God-Mode queue drain
\* (mutation of QueueGet: the newest item is taken first)
QueueGetNewest(q) == q[Len(q)]

\* asyncio.Queue.get: the oldest item
QueueGet(q) == Head(q)
QueueRest(q) == Tail(q)

\* mb.add(...) for every bank in `names`
AddToBanks(mems, names, entry) ==
  [a \in ActorNames |->
     IF a \in names THEN add_short_term(mems[a], entry) ELSE mems[a]]

\* chat_server.py 506-510 with _apply_god_action 279-287: dequeue one item and
\* apply its global announcement, up to the broadcast await
DequeueItem ==
  /\ AtDrain
  /\ eventQueue # <<>>
  /\ LET item == QueueGet(eventQueue)
     IN /\ ext_event' = item
        /\ eventQueue' = QueueRest(eventQueue)
        /\ deq_log' = Append(deq_log, item.id)
        /\ IF item.announcement
             THEN /\ actor_memories' =
                       AddToBanks(actor_memories, ActorNames, <<"ann", item.id>>)
                  /\ write_log' = Append(write_log, item.id)
             ELSE UNCHANGED <<actor_memories, write_log>>
  /\ pc' = "applying"
  /\ UNCHANGED <<is_playing, is_fresh_start, active_scene_chat_history,
                 blackboard_dialogue>>
  /\ UNCHANGED <<active_actors, current_turn, scene_ended, last_speaker_idx,
                 consecutive_silence_count, prev_speaker_name,
                 consecutive_speech_count, char_name, context>>
  /\ UNCHANGED <<turns_executed, pass_streak, passed_since_speak, end_reason,
                 speak_turns, last_turn, due,
                 due_at_turn, enq_log, queue_at_select>>
  /\ UNCHANGED <<eventVars, godVars, tableVars>>
  /\ UNCHANGED <<loopVars, ctlObs, retryVars, unitObs, showVars>>

\* _apply_god_action 289-302: target instructions, then memory updates
ApplyItemRest ==
  /\ pc = "applying"
  /\ LET item == ext_event
         instructed ==
           AddToBanks(actor_memories, item.instructions, <<"instr", item.id>>)
     IN /\ actor_memories' =
             AddToBanks(instructed, item.memory_updates, <<"mem", item.id>>)
        /\ write_log' =
             IF item.instructions \cup item.memory_updates # {}
               THEN Append(write_log, item.id) ELSE write_log
  /\ ext_event' = NoItem
  /\ pc' = "drain"
  /\ UNCHANGED <<is_playing, is_fresh_start, eventQueue,
                 active_scene_chat_history, blackboard_dialogue>>
  /\ UNCHANGED <<active_actors, current_turn, scene_ended, last_speaker_idx,
                 consecutive_silence_count, prev_speaker_name,
                 consecutive_speech_count, char_name, context>>
  /\ UNCHANGED <<turns_executed, pass_streak, passed_since_speak, end_reason,
                 speak_turns, last_turn, due,
                 due_at_turn, enq_log, deq_log, queue_at_select>>
  /\ UNCHANGED <<eventVars, godVars, tableVars>>
  /\ UNCHANGED <<loopVars, ctlObs, retryVars, unitObs, showVars>>

\* --------------------------------------------------------- speaker selection
\* chat_server.py 529-530
NextSpeakerIdx == (last_speaker_idx + 1) % Len(active_actors)
Candidate == active_actors[NextSpeakerIdx + 1]

\* (mutation of MonopolySkip: the cap is applied one turn late)
MonopolySkipLate(candidate) ==
  candidate = prev_speaker_name /\ consecutive_speech_count > MonopolyCap

\* chat_server.py 533
MonopolySkip(candidate) ==
  candidate = prev_speaker_name /\ consecutive_speech_count >= MonopolyCap

\* chat_server.py 529-536: the candidate is skipped, back to the loop head
AntiMonopolySkip ==
  /\ AtSelect
  /\ MonopolySkip(Candidate)
  /\ last_speaker_idx' = NextSpeakerIdx
  /\ char_name' = Candidate
  /\ queue_at_select' = Len(eventQueue)
  /\ pc' = "skip"
  /\ UNCHANGED <<active_actors, current_turn, scene_ended,
                 consecutive_silence_count, prev_speaker_name,
                 consecutive_speech_count, context, ext_event>>
  /\ UNCHANGED <<turns_executed, pass_streak, passed_since_speak, end_reason,
                 speak_turns, last_turn, due,
                 due_at_turn, enq_log, deq_log, write_log>>
  /\ UNCHANGED <<stageVars, eventVars, godVars, tableVars>>
  /\ UNCHANGED <<loopVars, ctlObs, retryVars, unitObs, showVars>>

\* chat_server.py 535-536: the sleep is over, `continue`
SkipWake ==
  /\ pc = "skip"
  /\ pc' = "head"
  /\ UNCHANGED <<active_actors, current_turn, scene_ended, last_speaker_idx,
                 consecutive_silence_count, prev_speaker_name,
                 consecutive_speech_count, char_name, context, ext_event>>
  /\ UNCHANGED <<stageVars, eventVars, godVars, obsVars, tableVars>>
  /\ UNCHANGED <<loopVars, ctlObs, retryVars, unitObs, showVars>>

\* chat_server.py 529-562: select the speaker, fetch its MemoryBank, build
\* its context and announce that it is thinking
BeginTurn ==
  /\ AtSelect
  /\ ~MonopolySkip(Candidate)
  /\ last_speaker_idx' = NextSpeakerIdx
  /\ char_name' = Candidate
  /\ context' =
       [memories |-> get_recent(actor_memories[Candidate], RecentLimit),
        chat_history |-> LastN(active_scene_chat_history, HistoryWindow)]
  /\ queue_at_select' = Len(eventQueue)
  /\ due_at_turn' = due[Candidate]
  /\ due' = [due EXCEPT ![Candidate] = {}]
  /\ m_bank_current' = TRUE
  /\ pc' = "thinking"
  /\ UNCHANGED <<active_actors, current_turn, scene_ended,
                 consecutive_silence_count, prev_speaker_name,
                 consecutive_speech_count, ext_event>>
  /\ UNCHANGED <<turns_executed, pass_streak, passed_since_speak, end_reason,
                 speak_turns, last_turn, enq_log,
                 deq_log, write_log>>
  /\ UNCHANGED <<stageVars, eventVars, godVars, tableVars>>
  /\ UNCHANGED <<script_len, current_index, mpc, current_event>>
  /\ UNCHANGED <<ctlObs, retryVars, unitObs, showVars>>

\* chat_server.py 562-564: the broadcasts are out, crew_actor.perform is
\* handed to a worker thread
CallGateway ==
  /\ pc = "thinking"
  /\ pc' = "gateway"
  /\ paused_calls' =
       IF is_playing THEN paused_calls
       ELSE IF paused_calls < 2 THEN paused_calls + 1 ELSE paused_calls
  /\ stop_during_call' = FALSE
  /\ UNCHANGED <<active_actors, current_turn, scene_ended, last_speaker_idx,
                 consecutive_silence_count, prev_speaker_name,
                 consecutive_speech_count, char_name, context, ext_event>>
  /\ UNCHANGED <<jumpObs>>
  /\ UNCHANGED <<stageVars, eventVars, godVars, obsVars, tableVars>>
  /\ UNCHANGED <<loopVars, retryVars, unitObs, showVars>>

\* ------------------------------------------------------- the gateway returns
\* an entry of the recent Blackboard dialogue already has this content
IsDuplicate(content) ==
  LET recent == get_recent_dialogue_struct(blackboard_dialogue, RecentLimit)
  IN content # <<>> /\ \E i \in 1..Len(recent) : recent[i].content = content

\* (mutation of ColdField: the threshold is missed by one)
ColdFieldStrict(silence) == silence > Len(active_actors)

\* chat_server.py 591: the cold-field threshold
ColdField(silence) == silence >= Len(active_actors)

\* chat_server.py 566-597 and the `continue` of 595: the decision is a pass
ResolvePass(d) ==
  /\ consecutive_silence_count' = consecutive_silence_count + 1
  /\ scene_ended' =
       IF ColdField(consecutive_silence_count + 1) THEN TRUE ELSE scene_ended
  /\ end_reason' =
       IF ColdField(consecutive_silence_count + 1) /\ ~scene_ended
         THEN "cold" ELSE end_reason
  /\ UNCHANGED <<current_turn, prev_speaker_name, consecutive_speech_count>>
  /\ UNCHANGED <<active_scene_chat_history, blackboard_dialogue,
                 actor_memories>>
  /\ turns_executed' = turns_executed + 1
  /\ pass_streak' = pass_streak + 1
  /\ passed_since_speak' = passed_since_speak \cup {char_name}
  /\ UNCHANGED speak_turns
  /\ last_turn' = [speaker |-> char_name, resolved |-> "pass",
                   is_finished |-> d.is_finished,
                   duplicate |-> IsDuplicate(d.content)]

\* chat_server.py 597-656: the decision is a speak
ResolveSpeak(d) ==
  /\ consecutive_silence_count' = 0
  /\ IF char_name = prev_speaker_name
       THEN /\ consecutive_speech_count' = consecutive_speech_count + 1
            /\ UNCHANGED prev_speaker_name
       ELSE /\ prev_speaker_name' = char_name
            /\ consecutive_speech_count' = 1
  /\ IF IsRevoke(d.content, d.action)
       THEN /\ blackboard_dialogue' =
                 remove_last_dialogue(blackboard_dialogue, char_name)
            /\ UNCHANGED <<active_scene_chat_history, actor_memories>>
       ELSE /\ active_scene_chat_history' =
                 Append(active_scene_chat_history,
                        [name |-> char_name, content |-> d.content,
                         action |-> d.action])
            /\ blackboard_dialogue' =
                 add_dialogue(blackboard_dialogue, char_name,
                              FullMsg(d.content, d.action))
            /\ actor_memories' =
                 IF m_bank_current
                   THEN [actor_memories EXCEPT ![char_name] =
                           add_short_term(@, <<"said",
                                               FullMsg(d.content, d.action)>>)]
                   ELSE actor_memories
  /\ scene_ended' = IF d.is_finished THEN TRUE ELSE scene_ended
  /\ end_reason' = IF d.is_finished /\ ~scene_ended THEN "finished"
                   ELSE end_reason
  /\ current_turn' = current_turn + 1
  /\ turns_executed' = turns_executed + 1
  /\ pass_streak' = 0
  /\ passed_since_speak' = {}
  /\ speak_turns' = Append(speak_turns, char_name)
  /\ last_turn' = [speaker |-> char_name, resolved |-> "speak",
                   is_finished |-> d.is_finished,
                   duplicate |-> IsDuplicate(d.content)]

\* chat_server.py 564-656: crew_actor.perform returned the decision d
GatewayReturn(d) ==
  /\ pc = "gateway"
  /\ IF IsPass(d.content, d.action, d.willingness)
       THEN ResolvePass(d)
       ELSE ResolveSpeak(d)
  /\ pc' = "head"
  /\ UNCHANGED <<active_actors, last_speaker_idx, char_name, context,
                 ext_event>>
  /\ UNCHANGED <<is_playing, is_fresh_start, eventQueue>>
  /\ UNCHANGED <<due, due_at_turn, enq_log, deq_log, write_log,
                 queue_at_select>>
  /\ stop_during_call' = FALSE
  /\ UNCHANGED <<jumpObs, paused_calls>>
  /\ UNCHANGED <<eventVars, godVars, tableVars>>
  /\ UNCHANGED <<loopVars, retryVars, unitObs, showVars>>

\* chat_server.py 560-573, 651-656: an exception before the decision is
\* applied (the result has no usable content); the turn is counted
GatewayError ==
  /\ pc = "gateway"
  /\ current_turn' = current_turn + 1
  /\ pass_streak' = 0
  /\ last_turn' = [speaker |-> char_name, resolved |-> "error",
                   is_finished |-> FALSE, duplicate |-> FALSE]
  /\ pc' = "head"
  /\ UNCHANGED <<active_actors, scene_ended, last_speaker_idx,
                 consecutive_silence_count, prev_speaker_name,
                 consecutive_speech_count, char_name, context, ext_event>>
  /\ UNCHANGED <<turns_executed, passed_since_speak, end_reason, speak_turns,
                 due, due_at_turn, enq_log, deq_log, write_log,
                 queue_at_select>>
  /\ stop_during_call' = FALSE
  /\ UNCHANGED <<jumpObs, paused_calls>>
  /\ UNCHANGED <<stageVars, eventVars, godVars, tableVars>>
  /\ UNCHANGED <<loopVars, retryVars, unitObs, showVars>>

\* ------------------------------------------------------- the control surface
\* chat_server.py 200-201 (the "pause" control action, the "stop" message);
\* a call that arrives once the turn loop has exited is taken to arrive when
\* _handle_event_step has returned, which the main loop cannot tell apart
Pause ==
  /\ pc # "post"
  /\ is_playing' = FALSE
  /\ stop_during_call' = (stop_during_call \/ pc = "gateway")
  /\ UNCHANGED <<is_fresh_start, eventQueue, actor_memories,
                 active_scene_chat_history, blackboard_dialogue>>
  /\ UNCHANGED <<jumpObs, paused_calls>>
  /\ UNCHANGED <<eventVars, sceneVars, godVars, obsVars, tableVars>>
  /\ UNCHANGED <<loopVars, retryVars, unitObs, showVars>>

\* chat_server.py 184-198: start() (also "resume"); a loop task is created
\* when there is none or the last one is done
Start ==
  /\ pc # "post"
  /\ script_len > 0
  /\ is_playing' = TRUE
  /\ is_fresh_start' = TRUE
  /\ mpc' = IF mpc \in {"idle", "done", "crashed"} THEN "begin" ELSE mpc
  /\ paused_calls' = 0
  /\ UNCHANGED <<eventQueue, actor_memories, active_scene_chat_history,
                 blackboard_dialogue>>
  /\ UNCHANGED <<script_len, current_index, current_event, m_bank_current>>
  /\ UNCHANGED <<jumpObs, stop_during_call>>
  /\ UNCHANGED <<eventVars, sceneVars, godVars, obsVars, tableVars>>
  /\ UNCHANGED <<retryVars, unitObs, showVars>>

\* the target_actor of the inject requests of the model
InjectTargets == {"A"}

\* what GodDirector.process_intervention returns for request `id`
\* (god_director.py 117-131): the fallback announcement, or an announcement
\* with an instruction and a memory update for the target
GodActions(id) ==
  {[id |-> id, announcement |-> TRUE, instructions |-> {},
    memory_updates |-> {}]}
    \cup {[id |-> id, announcement |-> TRUE, instructions |-> {t},
           memory_updates |-> {t}] : t \in InjectTargets}

\* the actors whose memory the action writes
Audience(item) ==
  (IF item.announcement THEN ActorNames ELSE {})
    \cup item.instructions \cup item.memory_updates

\* chat_server.py 224-253: inject: the GodDirector call is started
InjectRequest ==
  /\ pc # "post"
  /\ next_inject <= MaxInject
  /\ inflight' = inflight \cup {next_inject}
  /\ next_inject' = next_inject + 1
  /\ UNCHANGED <<stageVars, eventVars, sceneVars, obsVars, tableVars>>
  /\ UNCHANGED <<loopVars, ctlObs, retryVars, unitObs, showVars>>

\* chat_server.py 255-256: the GodDirector call returned, the action is queued
InjectEnqueue ==
  /\ pc # "post"
  /\ \E id \in inflight : \E item \in GodActions(id) :
       /\ inflight' = inflight \ {id}
       /\ eventQueue' = Append(eventQueue, item)
       /\ enq_log' = Append(enq_log, item.id)
       /\ due' = [a \in ActorNames |->
                    IF a \in Audience(item) THEN due[a] \cup {item.id}
                    ELSE due[a]]
  /\ UNCHANGED next_inject
  /\ UNCHANGED <<is_playing, is_fresh_start, actor_memories,
                 active_scene_chat_history, blackboard_dialogue>>
  /\ UNCHANGED <<turns_executed, pass_streak, passed_since_speak, end_reason,
                 speak_turns, last_turn, due_at_turn, deq_log, write_log,
                 queue_at_select>>
  /\ UNCHANGED <<eventVars, sceneVars, tableVars>>
  /\ UNCHANGED <<loopVars, ctlObs, retryVars, unitObs, showVars>>

\* ------------------------------------------------------------ the main loop
(* mpc names the await the loop task (_main_loop) is parked at:             *)
(*   "idle"    no loop task has been created                                *)
(*   "begin"   inside the opening broadcast (line 306)                      *)
(*   "top"     about to evaluate the while condition of line 308            *)
(*   "mpause"  inside `await asyncio.sleep(0.5)` of line 310                *)
(*   "mapply"  inside the broadcast of _apply_god_action called at line 316 *)
(*   "mdrain"  back at the queue check of line 313 after an item            *)
(*   "scene"   inside _handle_event_step (pc gives the position)            *)
(*   "sleep"   inside `await asyncio.sleep(2)` of line 335                  *)
(*   "closing" inside the closing broadcast (line 338)                      *)
(*   "done"    the task has finished                                        *)
(*   "crashed" the task has died on an exception                            *)
(* pc = "off" when _handle_event_step is not running.                       *)

\* chat_server.py 304-306
MainBegin ==
  /\ mpc = "begin"
  /\ mpc' = "top"
  /\ UNCHANGED <<script_len, current_index, current_event, m_bank_current>>
  /\ UNCHANGED <<stageVars, eventVars, sceneVars, godVars, obsVars, tableVars>>
  /\ UNCHANGED <<ctlObs, retryVars, unitObs, showVars>>

\* at the pause check of line 309
AtMainGate == (mpc = "top" /\ current_index < script_len) \/ mpc = "mpause"

\* chat_server.py 308, 337-338: the script is exhausted
MainExit ==
  /\ mpc = "top"
  /\ ~(current_index < script_len)
  /\ is_playing' = FALSE
  /\ mpc' = "closing"
  /\ UNCHANGED <<is_fresh_start, eventQueue, actor_memories,
                 active_scene_chat_history, blackboard_dialogue>>
  /\ UNCHANGED <<script_len, current_index, current_event, m_bank_current>>
  /\ UNCHANGED <<eventVars, sceneVars, godVars, obsVars, tableVars>>
  /\ UNCHANGED <<ctlObs, retryVars, unitObs, showVars>>

\* chat_server.py 338: the closing broadcast is delivered, the task is done
MainEnd ==
  /\ mpc = "closing"
  /\ mpc' = "done"
  /\ UNCHANGED <<script_len, current_index, current_event, m_bank_current>>
  /\ UNCHANGED <<stageVars, eventVars, sceneVars, godVars, obsVars, tableVars>>
  /\ UNCHANGED <<ctlObs, retryVars, unitObs, showVars>>

\* chat_server.py 309-310: while not self.is_playing: await asyncio.sleep(0.5)
MainPause ==
  /\ AtMainGate
  /\ ~is_playing
  /\ mpc' = "mpause"
  /\ UNCHANGED <<script_len, current_index, current_event, m_bank_current>>
  /\ UNCHANGED <<stageVars, eventVars, sceneVars, godVars, obsVars, tableVars>>
  /\ UNCHANGED <<ctlObs, retryVars, unitObs, showVars>>

\* at the queue check of line 313
AtMainDrain == (AtMainGate /\ is_playing) \/ mpc = "mdrain"

\* chat_server.py 313-316 with _apply_god_action 279-287: the main loop takes
\* the oldest queued action and applies its announcement, up to the broadcast
MainDequeue ==
  /\ AtMainDrain
  /\ eventQueue # <<>>
  /\ LET item == QueueGet(eventQueue)
     IN /\ ext_event' = item
        /\ eventQueue' = QueueRest(eventQueue)
        /\ deq_log' = Append(deq_log, item.id)
        /\ IF item.announcement
             THEN /\ actor_memories' =
                       AddToBanks(actor_memories, ActorNames, <<"ann", item.id>>)
                  /\ write_log' = Append(write_log, item.id)
             ELSE UNCHANGED <<actor_memories, write_log>>
  /\ mpc' = "mapply"
  /\ UNCHANGED <<is_playing, is_fresh_start, active_scene_chat_history,
                 blackboard_dialogue>>
  /\ UNCHANGED <<pc, active_actors, current_turn, scene_ended,
                 last_speaker_idx, consecutive_silence_count,
                 prev_speaker_name, consecutive_speech_count, char_name,
                 context>>
  /\ UNCHANGED <<turns_executed, pass_streak, passed_since_speak, end_reason,
                 speak_turns, last_turn, due,
                 due_at_turn, enq_log, queue_at_select>>
  /\ UNCHANGED <<script_len, current_index, current_event, m_bank_current>>
  /\ UNCHANGED <<eventVars, godVars, tableVars>>
  /\ UNCHANGED <<ctlObs, retryVars, unitObs, showVars>>

\* _apply_god_action 289-302 called from the main loop: target instructions,
\* then memory updates
MainApplyRest ==
  /\ mpc = "mapply"
  /\ LET item == ext_event
         instructed ==
           AddToBanks(actor_memories, item.instructions, <<"instr", item.id>>)
     IN /\ actor_memories' =
             AddToBanks(instructed, item.memory_updates, <<"mem", item.id>>)
        /\ write_log' =
             IF item.instructions \cup item.memory_updates # {}
               THEN Append(write_log, item.id) ELSE write_log
  /\ ext_event' = NoItem
  /\ mpc' = "mdrain"
  /\ UNCHANGED <<is_playing, is_fresh_start, eventQueue,
                 active_scene_chat_history, blackboard_dialogue>>
  /\ UNCHANGED <<pc, active_actors, current_turn, scene_ended,
                 last_speaker_idx, consecutive_silence_count,
                 prev_speaker_name, consecutive_speech_count, char_name,
                 context>>
  /\ UNCHANGED <<turns_executed, pass_streak, passed_since_speak, end_reason,
                 speak_turns, last_turn, due,
                 due_at_turn, enq_log, deq_log, queue_at_select>>
  /\ UNCHANGED <<script_len, current_index, current_event, m_bank_current>>
  /\ UNCHANGED <<eventVars, godVars, tableVars>>
  /\ UNCHANGED <<ctlObs, retryVars, unitObs, showVars>>

\* chat_server.py 313-332 with nothing queued: script[current_index] is read
\* and _handle_event_step is called with it (an index past the end of the
\* script raises IndexError and ends the task)
MainDispatch ==
  /\ AtMainDrain
  /\ eventQueue = <<>>
  /\ IF current_index < script_len
       THEN /\ current_event' = current_index
            /\ characters' = script[current_index + 1].characters
            /\ max_turns' = script[current_index + 1].max_turns
            /\ mpc' = "scene"
            /\ pc' = "start"
            /\ dispatch_obs' = [event |-> current_index,
                                after_jump |-> jump_target]
            /\ jump_target' = -1
       ELSE /\ mpc' = "crashed"
            /\ UNCHANGED <<current_event, pc, dispatch_obs, jump_target>>
            /\ UNCHANGED eventVars
  /\ turns_executed' = 0
  /\ pass_streak' = 0
  /\ passed_since_speak' = {}
  /\ end_reason' = "none"
  /\ speak_turns' = <<>>
  /\ last_turn' = NoTurn
  /\ UNCHANGED <<due, due_at_turn, enq_log, deq_log, write_log,
                 queue_at_select>>
  /\ UNCHANGED <<active_actors, current_turn, scene_ended, last_speaker_idx,
                 consecutive_silence_count, prev_speaker_name,
                 consecutive_speech_count, char_name, context, ext_event>>
  /\ UNCHANGED <<script_len, current_index, m_bank_current>>
  /\ UNCHANGED <<ctl_calls, paused_calls, stop_during_call>>
  /\ UNCHANGED <<stageVars, godVars, tableVars, retryVars, unitObs, showVars>>

\* chat_server.py 332-335: _handle_event_step returns and the cursor moves on
SceneReturn ==
  /\ mpc = "scene"
  /\ pc = "return"
  /\ current_index' = current_index + 1
  /\ mpc' = "sleep"
  /\ pc' = "off"
  /\ UNCHANGED <<active_actors, current_turn, scene_ended, last_speaker_idx,
                 consecutive_silence_count, prev_speaker_name,
                 consecutive_speech_count, char_name, context, ext_event>>
  /\ UNCHANGED <<script_len, current_event, m_bank_current>>
  /\ UNCHANGED <<stageVars, eventVars, godVars, obsVars, tableVars>>
  /\ UNCHANGED <<ctlObs, retryVars, unitObs, showVars>>

\* chat_server.py 321-323: db.update_performance_status raises (sqlite3
\* errors are not caught in db_manager.py 138-144); nothing in _main_loop
\* catches it, the task ends with the exception
DispatchPersistFails ==
  /\ AtMainGate
  /\ is_playing
  /\ eventQueue = <<>>
  /\ current_index < script_len
  /\ mpc' = "crashed"
  /\ UNCHANGED <<script_len, current_index, current_event, m_bank_current>>
  /\ UNCHANGED <<stageVars, eventVars, sceneVars, godVars, obsVars, tableVars>>
  /\ UNCHANGED <<ctlObs, retryVars, unitObs, showVars>>

\* chat_server.py 439-468: db.log_event of the scene's opening line raises
\* (db_manager.py 155-161), after the fresh-start handling; the exception
\* leaves _handle_event_step and _main_loop
SceneStartPersistFails ==
  /\ mpc = "scene"
  /\ pc = "start"
  /\ IF is_fresh_start
       THEN /\ is_fresh_start' = FALSE
            /\ UNCHANGED active_scene_chat_history
       ELSE /\ active_scene_chat_history' = <<>>
            /\ UNCHANGED is_fresh_start
  /\ pc' = "off"
  /\ mpc' = "crashed"
  /\ UNCHANGED <<active_actors, current_turn, scene_ended, last_speaker_idx,
                 consecutive_silence_count, prev_speaker_name,
                 consecutive_speech_count, char_name, context, ext_event>>
  /\ UNCHANGED <<is_playing, eventQueue, actor_memories, blackboard_dialogue>>
  /\ UNCHANGED <<script_len, current_index, current_event, m_bank_current>>
  /\ UNCHANGED <<eventVars, godVars, obsVars, tableVars>>
  /\ UNCHANGED <<ctlObs, retryVars, unitObs, showVars>>

\* chat_server.py 335, 308: the pacing sleep is over
MainWake ==
  /\ mpc = "sleep"
  /\ mpc' = "top"
  /\ UNCHANGED <<script_len, current_index, current_event, m_bank_current>>
  /\ UNCHANGED <<stageVars, eventVars, sceneVars, godVars, obsVars, tableVars>>
  /\ UNCHANGED <<ctlObs, retryVars, unitObs, showVars>>

\* chat_server.py 204: 0 <= index < len(self.script)
InRange(index) == 0 <= index /\ index < script_len

\* chat_server.py 203-206
jump(index) ==
  /\ ctl_calls < MaxControl
  /\ ctl_calls' = ctl_calls + 1
  /\ IF InRange(index)
       THEN /\ current_index' = index
            /\ jump_target' = index
       ELSE UNCHANGED <<current_index, jump_target>>
  /\ UNCHANGED <<script_len, mpc, current_event, m_bank_current>>
  /\ UNCHANGED <<dispatch_obs, paused_calls, stop_during_call>>
  /\ UNCHANGED <<stageVars, eventVars, sceneVars, godVars, obsVars, tableVars>>
  /\ UNCHANGED <<retryVars, unitObs, showVars>>

\* ------------------------------------------------- the user_message handler
UserName == "Gaia"
UserContent == <<"u">>
UserEventTurns == 5    \* max_turns=5 of the appended event

\* chat_server.py 811-819: the event appended for a user message
UserEvent ==
  [timeline |-> <<"User Interaction">>, event |-> <<"User Spoke">>,
   description |-> <<"User said">>, goal |-> <<"Respond to user">>,
   characters |-> ActorOrder, location |-> <<"Current Location">>,
   max_turns |-> UserEventTurns]

\* chat_server.py 771-794: the message is put on the Blackboard and the
\* handler awaits its broadcast
UserMessageReceive ==
  /\ user_pc = "idle"
  /\ user_msgs < MaxUser
  /\ user_msgs' = user_msgs + 1
  /\ blackboard_dialogue' =
       add_dialogue(blackboard_dialogue, UserName, UserContent)
  /\ user_pc' = "broadcast"
  /\ UNCHANGED <<is_playing, is_fresh_start, eventQueue, actor_memories,
                 active_scene_chat_history>>
  /\ UNCHANGED <<script, registryVars, postVars>>
  /\ UNCHANGED <<eventVars, sceneVars, godVars, obsVars, tableVars>>
  /\ UNCHANGED <<loopVars, ctlObs, retryVars, unitObs>>

\* chat_server.py 796-837 with start() 184-198: the message joins the scene
\* chat history; when the engine is not playing it is started, after a new
\* event has been appended to a finished script
UserMessageDeliver ==
  /\ user_pc = "broadcast"
  /\ user_pc' = "idle"
  /\ active_scene_chat_history' =
       Append(active_scene_chat_history,
              [name |-> UserName, content |-> UserContent, action |-> <<>>])
  /\ IF current_index >= script_len
       THEN /\ script' = Append(script, UserEvent)
            /\ script_len' = script_len + 1
       ELSE UNCHANGED <<script, script_len>>
  /\ IF is_playing
       THEN UNCHANGED <<is_playing, is_fresh_start, mpc, paused_calls>>
       ELSE /\ is_playing' = TRUE
            /\ IF script' = <<>> \/ actors = {}
                 THEN UNCHANGED <<is_fresh_start, mpc, paused_calls>>
                 ELSE /\ is_fresh_start' = TRUE
                      /\ mpc' = IF mpc \in {"idle", "done", "crashed"}
                                  THEN "begin" ELSE mpc
                      /\ paused_calls' = 0
  /\ UNCHANGED <<eventQueue, actor_memories, blackboard_dialogue>>
  /\ UNCHANGED <<current_index, current_event, m_bank_current>>
  /\ UNCHANGED <<jumpObs, stop_during_call>>
  /\ UNCHANGED <<user_msgs, registryVars, postVars>>
  /\ UNCHANGED <<eventVars, sceneVars, godVars, obsVars, tableVars>>
  /\ UNCHANGED <<retryVars, unitObs>>

\* ------------------------------------- the control operations as functions
(* The engine state the control surface acts on, with the registered actor  *)
(* names start() looks at; loops is the number of main-loop tasks that are  *)
(* not done.                                                                *)
Engine ==
  [is_playing |-> is_playing, is_fresh_start |-> is_fresh_start,
   current_index |-> current_index, script |-> script,
   eventQueue |-> eventQueue, actors |-> actors,
   loops |-> IF mpc \in {"idle", "done", "crashed"} THEN 0 ELSE 1]

\* (mutation of start: a loop task is created on every call)
start_always_creates(e) ==
  IF e.script = <<>> \/ e.actors = {} THEN e
  ELSE [e EXCEPT !.is_playing = TRUE, !.is_fresh_start = TRUE,
                 !.loops = @ + 1]

\* chat_server.py 184-198
start(e) ==
  IF e.script = <<>> \/ e.actors = {} THEN e
  ELSE [e EXCEPT !.is_playing = TRUE, !.is_fresh_start = TRUE,
                 !.loops = IF @ = 0 THEN 1 ELSE @]

\* chat_server.py 200-201
pause(e) == [e EXCEPT !.is_playing = FALSE]

\* chat_server.py 266-270
time_travel(e, new_time) ==
  IF 0 <= e.current_index /\ e.current_index < Len(e.script)
    THEN [e EXCEPT !.script[e.current_index + 1].timeline = new_time]
    ELSE e

\* the new_time of the time_travel requests of the model
NewTimes == {<<"now">>}

\* chat_server.py 266-275, god_time_travel 926-929
TimeTravel(new_time) ==
  /\ script' = time_travel(Engine, new_time).script
  /\ UNCHANGED <<registryVars, postVars, userVars>>
  /\ UNCHANGED <<stageVars, eventVars, sceneVars, godVars, obsVars, tableVars>>
  /\ UNCHANGED <<loopVars, ctlObs, retryVars, unitObs>>

\* chat_server.py 156-165: the three registries get an entry per actor of
\* the request; entries of other names stay
Registered(keys, cast) == keys \cup cast

\* chat_server.py 146-173: a request with a script of n events and the actors
\* `cast`, each of which gets a new, empty MemoryBank; an event or a
\* MemoryBank captured by a running scene is no longer the registered one
initialize_req(cast, n) ==
  /\ ctl_calls < MaxControl
  /\ ctl_calls' = ctl_calls + 1
  /\ script' = ScriptOf(n)
  /\ script_len' = n
  /\ actors' = cast
  /\ llm_clients' = Registered(llm_clients, cast)
  /\ crew_actors' = Registered(crew_actors, cast)
  /\ actor_memories' =
       [a \in Registered(DOMAIN actor_memories, cast) |->
          IF a \in cast THEN <<>> ELSE actor_memories[a]]
  /\ m_bank_current' = FALSE
  /\ next_event_idx' = -1
  /\ current_index' = 0
  /\ is_playing' = FALSE
  /\ jump_target' = -1
  /\ UNCHANGED <<is_fresh_start, eventQueue, active_scene_chat_history,
                 blackboard_dialogue>>
  /\ UNCHANGED <<mpc, current_event>>
  /\ UNCHANGED <<dispatch_obs, paused_calls, stop_during_call>>
  /\ UNCHANGED <<summary, adapt_log, userVars>>
  /\ UNCHANGED <<eventVars, sceneVars, godVars, obsVars, tableVars>>
  /\ UNCHANGED <<retryVars, unitObs>>

\* initialize() with the cast of the model's performances
initialize(n) == initialize_req(ActorNames, n)

\* --------------------------------------------------- the post-scene analysis
(* pc after the turn loop:                                                  *)
(*   "post"      at the check of line 659                                   *)
(*   "analysis"  awaiting analyst.analyze in the executor (line 673)        *)
(*   "adapting"  awaiting generator.adapt_script in the executor (line 398) *)
(*   "return"    _handle_event_step is about to return                      *)

\* what analyst.analyze returns as "summary" for event k (crew_post_scene.py
\* 152-170): the model's summary, possibly an empty one
Summaries(k) == {<<>>, <<"S", k>>}

\* chat_server.py 392-396: the plan handed to adapt_script
PlanOf(ev) == [Time |-> ev.timeline, Event |-> ev.event, Goal |-> ev.goal]

\* what adapt_script returns for the plan (script_generator.py 184-189): a
\* new plan or, when the reply does not parse, the plan it was given
AdaptedPlans(plan) ==
  {[Time |-> <<"T*">>, Event |-> <<"E*">>, Goal |-> <<"G*">>], plan}

\* chat_server.py 659: no post-scene analysis for an empty chat history
PostSkip ==
  /\ pc = "post"
  /\ active_scene_chat_history = <<>>
  /\ pc' = "return"
  /\ UNCHANGED <<active_actors, current_turn, scene_ended, last_speaker_idx,
                 consecutive_silence_count, prev_speaker_name,
                 consecutive_speech_count, char_name, context, ext_event>>
  /\ UNCHANGED <<stageVars, eventVars, godVars, obsVars, tableVars>>
  /\ UNCHANGED <<loopVars, ctlObs, retryVars, unitObs, showVars>>

\* chat_server.py 659-676: the analyst is called
PostAnalyse ==
  /\ pc = "post"
  /\ active_scene_chat_history # <<>>
  /\ pc' = "analysis"
  /\ UNCHANGED <<active_actors, current_turn, scene_ended, last_speaker_idx,
                 consecutive_silence_count, prev_speaker_name,
                 consecutive_speech_count, char_name, context, ext_event>>
  /\ UNCHANGED <<stageVars, eventVars, godVars, obsVars, tableVars>>
  /\ UNCHANGED <<loopVars, ctlObs, retryVars, unitObs, showVars>>

\* chat_server.py 345: there is an event after the current one
HasNextEvent == ~(current_index + 1 >= script_len)

\* chat_server.py 678-696, 340-401: the analysis returned summary s; with a
\* non-empty summary _invoke_director_adaptation is entered, and adapt_script
\* is called when an event follows
AnalysisReturn(s) ==
  /\ pc = "analysis"
  /\ summary' = s
  /\ IF s # <<>> /\ HasNextEvent
       THEN /\ next_event_idx' = current_index + 1
            /\ adapt_log' =
                 Append(adapt_log,
                        [scene |-> current_event, summary |-> s,
                         idx |-> current_index + 1,
                         plan |-> PlanOf(script[current_index + 2])])
            /\ pc' = "adapting"
       ELSE /\ pc' = "return"
            /\ UNCHANGED <<next_event_idx, adapt_log>>
  /\ UNCHANGED <<active_actors, current_turn, scene_ended, last_speaker_idx,
                 consecutive_silence_count, prev_speaker_name,
                 consecutive_speech_count, char_name, context, ext_event>>
  /\ UNCHANGED <<script, registryVars, userVars>>
  /\ UNCHANGED <<stageVars, eventVars, godVars, obsVars, tableVars>>
  /\ UNCHANGED <<loopVars, ctlObs, retryVars, unitObs>>

\* chat_server.py 673, 698-699: the executor call raises; the exception is
\* logged and the scene returns
AnalysisError ==
  /\ pc = "analysis"
  /\ pc' = "return"
  /\ UNCHANGED <<active_actors, current_turn, scene_ended, last_speaker_idx,
                 consecutive_silence_count, prev_speaker_name,
                 consecutive_speech_count, char_name, context, ext_event>>
  /\ UNCHANGED <<stageVars, eventVars, godVars, obsVars, tableVars>>
  /\ UNCHANGED <<loopVars, ctlObs, retryVars, unitObs, showVars>>

\* (mutation of Adapted: the plan also replaces the location)
AdaptedWithLocation(ev, data) ==
  [ev EXCEPT !.timeline = data.Time, !.event = data.Event,
             !.goal = data.Goal, !.description = data.Event,
             !.location = data.Event]

\* chat_server.py 409-416: the fields the returned plan replaces
Adapted(ev, data) ==
  [ev EXCEPT !.timeline = data.Time, !.event = data.Event,
             !.goal = data.Goal, !.description = data.Event]

\* chat_server.py 398-425: adapt_script returned `data`; the captured event is
\* rewritten (next_event_idx = -1: it is no longer part of the script)
AdaptReturn(data) ==
  /\ pc = "adapting"
  /\ script' = IF next_event_idx >= 0
                 THEN [script EXCEPT ![next_event_idx + 1] = Adapted(@, data)]
                 ELSE script
  /\ pc' = "return"
  /\ UNCHANGED <<active_actors, current_turn, scene_ended, last_speaker_idx,
                 consecutive_silence_count, prev_speaker_name,
                 consecutive_speech_count, char_name, context, ext_event>>
  /\ UNCHANGED <<registryVars, postVars, userVars>>
  /\ UNCHANGED <<stageVars, eventVars, godVars, obsVars, tableVars>>
  /\ UNCHANGED <<loopVars, ctlObs, retryVars, unitObs>>

\* the plan adapt_script was called with
PlanInHand == adapt_log[Len(adapt_log)].plan

\* adapt_script returns one of the plans it can return
AdaptStep ==
  /\ pc = "adapting"
  /\ \E data \in AdaptedPlans(PlanInHand) : AdaptReturn(data)

\* chat_server.py 398-404, 427-430: adapt_script raised or returned nothing
AdaptFailure ==
  /\ pc = "adapting"
  /\ pc' = "return"
  /\ UNCHANGED <<active_actors, current_turn, scene_ended, last_speaker_idx,
                 consecutive_silence_count, prev_speaker_name,
                 consecutive_speech_count, char_name, context, ext_event>>
  /\ UNCHANGED <<stageVars, eventVars, godVars, obsVars, tableVars>>
  /\ UNCHANGED <<loopVars, ctlObs, retryVars, unitObs, showVars>>

\* ------------------------------------------------------ the retrying LLM call
(* ConsciousnessProbe._query (consciousness.py 30-107) and                  *)
(* LLMProvider.safe_completion (llm_provider.py 25-91).  Times are in tenths*)
(* of a second.  An error text is a sequence of words; a numeral is a word  *)
(* of DOMAIN NumVal.  r_pc: "idle", "calling" (inside the provider call),   *)
(* "sleeping" (inside the backoff sleep), "returned", "raised".             *)
MaxRetries == 5        \* max_retries
Backoff == 2           \* backoff, in seconds
RetryBuffer == 15      \* suggested_wait + 1.5
QuotaFloor == 100      \* max(wait_time, 10.0)
ApiErrorSleep == 20    \* time.sleep(2)
OtherErrorSleep == 10  \* time.sleep(1)

Jitters == {0, 5, 9}   \* random.uniform(0, 1), sampled

\* float(match.group(1)), in tenths
NumVal == [n \in {"5.2", "30", "100"} |->
             IF n = "5.2" THEN 52 ELSE IF n = "30" THEN 300 ELSE 1000]

\* str.lower() on the words of the model
Lower(w) ==
  IF w = "Retry In " THEN "retry in "
  ELSE IF w = "Retry After " THEN "retry after "
  ELSE IF w = "QUOTA" THEN "quota"
  ELSE IF w = "S" THEN "s"
  ELSE IF w = "Invalid" THEN "invalid"
  ELSE w

LowerText(t) == [i \in 1..Len(t) |-> Lower(t[i])]

RECURSIVE Pow2(_)
Pow2(n) == IF n = 0 THEN 1 ELSE 2 * Pow2(n - 1)

Max(a, b) == IF a >= b THEN a ELSE b

\* positions where r"retry in (\d+(\.\d+)?)s" matches, re.IGNORECASE
RetryInAt(t) ==
  {i \in 1..(Len(t) - 2) : /\ Lower(t[i]) = "retry in "
                             /\ t[i + 1] \in DOMAIN NumVal
                             /\ Lower(t[i + 2]) = "s"}

\* positions where r"retry after (\d+(\.\d+)?)" matches, re.IGNORECASE
RetryAfterAt(t) ==
  {i \in 1..(Len(t) - 1) : /\ Lower(t[i]) = "retry after "
                             /\ t[i + 1] \in DOMAIN NumVal}

\* re.search: the leftmost match
Leftmost(S) == CHOOSE i \in S : \A j \in S : i <= j

\* consciousness.py 66: the failures _query turns into an exception
RateLimitLike(t) ==
  \E w \in {"429", "too many requests", "closed connection", "limitation",
             "quota", "resource_exhausted"} : Contains(LowerText(t), w)

\* consciousness.py 98
QuotaLike(t) ==
  \E w \in {"429", "quota", "resource_exhausted"} : Contains(LowerText(t), w)

\* (mutation of QueryWait: the 1.5 s buffer on the suggested wait is missing)
QueryWaitNoBuffer(attempt, jitter, t) ==
  LET wait_time == Backoff * Pow2(attempt) * 10 + jitter
  IN IF RetryInAt(t) # {}
       THEN Max(wait_time, NumVal[t[Leftmost(RetryInAt(t)) + 1]])
     ELSE IF RetryAfterAt(t) # {}
       THEN Max(wait_time, NumVal[t[Leftmost(RetryAfterAt(t)) + 1]])
     ELSE IF QuotaLike(t) THEN Max(wait_time, QuotaFloor)
     ELSE wait_time

\* consciousness.py 82-100: wait_time
QueryWait(attempt, jitter, t) ==
  LET wait_time == Backoff * Pow2(attempt) * 10 + jitter
  IN IF RetryInAt(t) # {}
       THEN Max(wait_time,
                NumVal[t[Leftmost(RetryInAt(t)) + 1]] + RetryBuffer)
     ELSE IF RetryAfterAt(t) # {}
       THEN Max(wait_time,
                NumVal[t[Leftmost(RetryAfterAt(t)) + 1]] + RetryBuffer)
     ELSE IF QuotaLike(t) THEN Max(wait_time, QuotaFloor)
     ELSE wait_time

\* what one provider call can do: cls is "ok", the class of the exception it
\* raises, or "failure" (run_benchmark returns a result with success = False);
\* bad_request says that the provider reports HTTP 400 / an invalid request
Outcome(cls, text, bad) == [cls |-> cls, text |-> text, bad_request |-> bad]

\* the error texts of the model
ErrorTexts ==
  {<<"x">>,
   <<"429", " ", "x">>,
   <<"QUOTA">>,
   <<"x", " ", "retry in ", "5.2", "s">>,
   <<"429", " ", "Retry In ", "30", "S">>,
   <<"quota", " ", "Retry After ", "100">>,
   <<"retry in ", "30", " ", "x">>}

BadRequestTexts == {<<"400", " ", "x">>, <<"Invalid", " ", "x">>}

\* run_benchmark of the provider (consciousness.py 56-61)
QueryOutcomes ==
  {Outcome("ok", <<>>, FALSE)}
    \cup {Outcome(c, t, FALSE) : c \in {"failure", "Exception"},
                                 t \in ErrorTexts}
    \cup {Outcome(c, t, TRUE) : c \in {"failure", "Exception"},
                                t \in BadRequestTexts}

\* client.chat.completions.create of the OpenAI client (llm_provider.py
\* 49-54); the client reports HTTP 400 as BadRequestError
CompletionOutcomes ==
  {Outcome("ok", <<>>, FALSE),
   Outcome("RateLimitError", <<"429", " ", "x">>, FALSE),
   Outcome("APIConnectionError", <<"x">>, FALSE),
   Outcome("InternalServerError", <<"x">>, FALSE),
   Outcome("BadRequestError", <<"400", " ", "x">>, TRUE),
   Outcome("Exception", <<"x">>, FALSE)}
    \cup {Outcome("Exception", t, TRUE) : t \in BadRequestTexts}

\* the exception classes of the openai package: the API errors all derive
\* from APIError
IsInstance(cls, base) ==
  \/ cls = base
  \/ base = "APIError" /\ cls \in {"RateLimitError", "APIConnectionError",
                                    "InternalServerError", "BadRequestError"}
  \/ base = "Exception" /\ cls \notin {"ok", "failure", "none"}

\* consciousness.py 67, 77: str(e) in the except branch of _query
ExceptionText(o) ==
  IF o.cls = "failure" THEN <<"RateLimit/ConnectionError: ">> \o o.text
  ELSE o.text

\* consciousness.py 30-54, llm_provider.py 25-47: the call is made;
\* safe_completion returns an error text at once when no message has content
RetryStart ==
  /\ r_pc = "idle"
  /\ r_attempt' = 0
  /\ \E fn \in {"query", "safe_completion"}, has_valid_messages \in BOOLEAN :
       /\ r_fn' = fn
       /\ IF fn = "safe_completion" /\ ~has_valid_messages
            THEN r_pc' = "returned" /\ r_result' = "error"
            ELSE r_pc' = "calling" /\ UNCHANGED r_result
  /\ UNCHANGED <<r_calls, r_sleeps, r_wait, r_jitter, r_last_outcome>>
  /\ UNCHANGED <<stageVars, eventVars, sceneVars, godVars, obsVars, tableVars>>
  /\ UNCHANGED <<loopVars, ctlObs, unitObs, showVars>>

\* consciousness.py 54-105: one iteration of `for attempt in range(5)`
QueryAttempt(o, jitter) ==
  /\ r_fn = "query"
  /\ r_pc = "calling"
  /\ r_calls' = r_calls + 1
  /\ r_last_outcome' = o
  /\ IF o.cls = "ok"
       THEN /\ r_pc' = "returned"
            /\ r_result' = "content"
            /\ UNCHANGED <<r_sleeps, r_wait, r_jitter>>
     ELSE IF o.cls = "failure" /\ ~RateLimitLike(o.text)
       THEN /\ r_pc' = "returned"
            /\ r_result' = "error"
            /\ UNCHANGED <<r_sleeps, r_wait, r_jitter>>
     ELSE IF r_attempt < MaxRetries - 1
       THEN /\ r_pc' = "sleeping"
            /\ r_jitter' = jitter
            /\ r_wait' = QueryWait(r_attempt, jitter, ExceptionText(o))
            /\ r_sleeps' = r_sleeps + 1
            /\ UNCHANGED r_result
     ELSE /\ r_pc' = "returned"
          /\ r_result' = "error"
          /\ UNCHANGED <<r_sleeps, r_wait, r_jitter>>
  /\ UNCHANGED <<r_fn, r_attempt>>
  /\ UNCHANGED <<stageVars, eventVars, sceneVars, godVars, obsVars, tableVars>>
  /\ UNCHANGED <<loopVars, ctlObs, unitObs, showVars>>

\* llm_provider.py 47-89: one iteration of `for attempt in range(5)`
CompletionAttempt(o, jitter) ==
  /\ r_fn = "safe_completion"
  /\ r_pc = "calling"
  /\ r_calls' = r_calls + 1
  /\ r_last_outcome' = o
  /\ IF o.cls = "ok"
       THEN /\ r_pc' = "returned"
            /\ r_result' = "content"
            /\ UNCHANGED <<r_sleeps, r_wait, r_jitter>>
     ELSE IF IsInstance(o.cls, "RateLimitError")
       THEN /\ r_pc' = "sleeping"
            /\ r_jitter' = jitter
            /\ r_wait' = Backoff * Pow2(r_attempt) * 10 + jitter
            /\ r_sleeps' = r_sleeps + 1
            /\ UNCHANGED r_result
     ELSE IF IsInstance(o.cls, "APIConnectionError")
       THEN /\ r_pc' = "sleeping"
            /\ r_wait' = Backoff * Pow2(r_attempt) * 10
            /\ r_sleeps' = r_sleeps + 1
            /\ UNCHANGED <<r_result, r_jitter>>
     ELSE IF IsInstance(o.cls, "APIError")
       THEN IF r_attempt = MaxRetries - 1
              THEN /\ r_pc' = "raised"
                   /\ UNCHANGED <<r_result, r_sleeps, r_wait, r_jitter>>
              ELSE /\ r_pc' = "sleeping"
                   /\ r_wait' = ApiErrorSleep
                   /\ r_sleeps' = r_sleeps + 1
                   /\ UNCHANGED <<r_result, r_jitter>>
     ELSE IF \/ Contains(o.text, "400")
             \/ Contains(LowerText(o.text), "invalid")
             \/ r_attempt = MaxRetries - 1
       THEN /\ r_pc' = "raised"
            /\ UNCHANGED <<r_result, r_sleeps, r_wait, r_jitter>>
     ELSE /\ r_pc' = "sleeping"
          /\ r_wait' = OtherErrorSleep
          /\ r_sleeps' = r_sleeps + 1
          /\ UNCHANGED <<r_result, r_jitter>>
  /\ UNCHANGED <<r_fn, r_attempt>>
  /\ UNCHANGED <<stageVars, eventVars, sceneVars, godVars, obsVars, tableVars>>
  /\ UNCHANGED <<loopVars, ctlObs, unitObs, showVars>>

\* the sleep is over: the next iteration, or (llm_provider.py 91) the loop is
\* exhausted and "Max retries exceeded" is raised
RetryWake ==
  /\ r_pc = "sleeping"
  /\ IF r_attempt + 1 < MaxRetries
       THEN /\ r_attempt' = r_attempt + 1
            /\ r_pc' = "calling"
       ELSE /\ r_pc' = "raised"
            /\ UNCHANGED r_attempt
  /\ UNCHANGED <<r_fn, r_result, r_calls, r_sleeps, r_wait, r_jitter,
                 r_last_outcome>>
  /\ UNCHANGED <<stageVars, eventVars, sceneVars, godVars, obsVars, tableVars>>
  /\ UNCHANGED <<loopVars, ctlObs, unitObs, showVars>>

\* ------------------------------------------ MemoryBank and Blackboard alone
MemoryContents == {<<"mem", 1>>, <<"mem", 2>>}

\* memory_bank.py 16-20: add_short_term on the bank of actor A
MemoryAddShortTerm ==
  /\ Len(mem_added) < MaxAdds
  /\ \E content \in MemoryContents :
       /\ actor_memories' =
            [actor_memories EXCEPT !["A"] = add_short_term(@, content)]
       /\ mem_added' = Append(mem_added, content)
  /\ UNCHANGED <<is_playing, is_fresh_start, eventQueue,
                 active_scene_chat_history, blackboard_dialogue>>
  /\ UNCHANGED <<dlg_added, showVars>>
  /\ UNCHANGED <<eventVars, sceneVars, godVars, obsVars, tableVars>>
  /\ UNCHANGED <<loopVars, ctlObs, retryVars>>

\* memory_bank.py 26-28: add, the alias
MemoryAdd == MemoryAddShortTerm

DialogueSpeakers == {"A", "Gaia"}
DialogueContents == {<<"x">>, <<"x", " ", "x">>}

\* chat_server.py 644, 780: add_dialogue(speaker, content) on the Blackboard
BlackboardAddDialogue ==
  /\ Len(dlg_added) < MaxDialogue
  /\ \E speaker \in DialogueSpeakers, content \in DialogueContents :
       /\ blackboard_dialogue' =
            add_dialogue(blackboard_dialogue, speaker, content)
       /\ dlg_added' = Append(dlg_added, <<speaker, content>>)
  /\ UNCHANGED <<is_playing, is_fresh_start, eventQueue, actor_memories,
                 active_scene_chat_history>>
  /\ UNCHANGED <<mem_added, showVars>>
  /\ UNCHANGED <<eventVars, sceneVars, godVars, obsVars, tableVars>>
  /\ UNCHANGED <<loopVars, ctlObs, retryVars>>

\* ------------------------------------------------------------ specifications
\* the steps of the scheduler task that every scene takes
SchedulerStep ==
  \/ StartScene
  \/ ExitLoop
  \/ PauseGate
  \/ AntiMonopolySkip
  \/ SkipWake
  \/ BeginTurn
  \/ CallGateway
  \/ \E d \in SceneDecisions : GatewayReturn(d)
  \/ GatewayError

\* one scene under pause / resume, nothing injected
Next ==
  \/ SchedulerStep
  \/ Pause
  \/ Start

Spec == Init /\ [][Next]_vars

\* the scheduler task is never starved by the event loop
FairSpec == Spec /\ WF_vars(SchedulerStep)

\* one scene with God-Mode injections arriving at any await; the event names
\* one participant, the other registered actors only receive announcements
InitGodScene ==
  /\ InitStage /\ InitScene /\ InitGod /\ InitObs /\ InitTable /\ InitRest
  /\ characters = <<"A">>
  /\ max_turns = GodTurns

\* (nobody pauses here, so the pause gate is always open)
NextGod ==
  \/ StartScene
  \/ ExitLoop
  \/ AntiMonopolySkip
  \/ SkipWake
  \/ BeginTurn
  \/ CallGateway
  \/ \E d \in GodSceneDecisions : GatewayReturn(d)
  \/ DequeueItem
  \/ ApplyItemRest
  \/ InjectRequest
  \/ InjectEnqueue

SpecGod == InitGodScene /\ [][NextGod]_vars

\* one scene in which every gateway call fails inside perform
SchedulerStepFailing ==
  \/ StartScene
  \/ ExitLoop
  \/ PauseGate
  \/ BeginTurn
  \/ CallGateway
  \/ \E o \in FailureOutcomes : GatewayReturn(perform(o))

NextFailing ==
  \/ SchedulerStepFailing
  \/ Pause
  \/ Start

SpecFailing == Init /\ [][NextFailing]_vars /\ WF_vars(SchedulerStepFailing)

\* one retrying LLM call against a provider that may fail at every attempt
NextRetry ==
  \/ RetryStart
  \/ \E o \in QueryOutcomes, jitter \in Jitters : QueryAttempt(o, jitter)
  \/ \E o \in CompletionOutcomes, jitter \in Jitters :
       CompletionAttempt(o, jitter)
  \/ RetryWake

InitRetryCall ==
  /\ InitStage /\ InitScene /\ InitGod /\ InitObs /\ InitTable /\ InitRest
  /\ characters = <<"A">>
  /\ max_turns = 0

SpecRetry == InitRetryCall /\ [][NextRetry]_vars

\* one MemoryBank under any sequence of add / add_short_term calls
NextMemoryBank ==
  \/ MemoryAddShortTerm
  \/ MemoryAdd

SpecMemoryBank == InitRetryCall /\ [][NextMemoryBank]_vars

\* one Blackboard under any sequence of add_dialogue calls
NextBlackboard == BlackboardAddDialogue

SpecBlackboard == InitRetryCall /\ [][NextBlackboard]_vars

\* the whole performance: StageManager as constructed, then initialize,
\* start, pause and jump calls arriving at any await of the loop task; every
\* event of a script has the cast [A, B] and max_turns = 1
InitMain ==
  /\ is_playing = FALSE
  /\ is_fresh_start = FALSE
  /\ eventQueue = <<>>
  /\ actor_memories = [a \in ActorNames |-> <<>>]
  /\ active_scene_chat_history = <<>>
  /\ blackboard_dialogue = <<>>
  /\ characters = <<"A", "B">>
  /\ max_turns = 1
  /\ pc = "off"
  /\ active_actors = <<>>
  /\ current_turn = 0
  /\ scene_ended = FALSE
  /\ last_speaker_idx = -1
  /\ consecutive_silence_count = 0
  /\ prev_speaker_name = NoSpeaker
  /\ consecutive_speech_count = 0
  /\ char_name = NoSpeaker
  /\ context = NoContext
  /\ ext_event = NoItem
  /\ script_len = 0
  /\ current_index = 0
  /\ mpc = "idle"
  /\ current_event = -1
  /\ m_bank_current = FALSE
  /\ InitGod /\ InitObs /\ InitTable /\ InitCtl /\ InitRetry /\ InitUnit
  /\ script = <<>>
  /\ InitBackstage

\* the decisions sampled in the scenes of a whole performance
MainSceneDecisions == GodSceneDecisions

\* (with max_turns = 1 no actor speaks twice, so the anti-monopoly skip is
\* never taken; nothing is injected and perform always returns)
NextMain ==
  \/ MainBegin
  \/ MainExit
  \/ MainEnd
  \/ MainPause
  \/ MainDispatch
  \/ SceneReturn
  \/ MainWake
  \/ StartScene
  \/ ExitLoop
  \/ PauseGate
  \/ BeginTurn
  \/ CallGateway
  \/ \E d \in MainSceneDecisions : GatewayReturn(d)
  \/ PostSkip
  \/ PostAnalyse
  \/ \E s \in Summaries(current_event) : AnalysisReturn(s)
  \/ AnalysisError
  \/ AdaptStep
  \/ AdaptFailure
  \/ Pause
  \/ Start
  \/ \E index \in (-1)..MaxScript : jump(index)
  \/ \E n \in 0..MaxScript : initialize(n)

SpecMain == InitMain /\ [][NextMain]_vars

\* a performance of n events after initialize(), before start()
InitPerformance(n) ==
  /\ is_playing = FALSE
  /\ is_fresh_start = FALSE
  /\ eventQueue = <<>>
  /\ actor_memories = [a \in ActorNames |-> <<>>]
  /\ active_scene_chat_history = <<>>
  /\ blackboard_dialogue = <<>>
  /\ characters = <<"A", "B">>
  /\ max_turns = 1
  /\ pc = "off"
  /\ active_actors = <<>>
  /\ current_turn = 0
  /\ scene_ended = FALSE
  /\ last_speaker_idx = -1
  /\ consecutive_silence_count = 0
  /\ prev_speaker_name = NoSpeaker
  /\ consecutive_speech_count = 0
  /\ char_name = NoSpeaker
  /\ context = NoContext
  /\ ext_event = NoItem
  /\ script_len = n
  /\ current_index = 0
  /\ mpc = "idle"
  /\ current_event = -1
  /\ m_bank_current = FALSE
  /\ InitGod /\ InitObs /\ InitTable /\ InitCtl /\ InitRetry /\ InitUnit
  /\ script = ScriptOf(n)
  /\ InitBackstage

InitShowtime == InitPerformance(MaxScript)

\* the decisions sampled in the scenes of the show: a line, a pass, a line
\* that signals the end of the scene
ShowDecisions ==
  GodSceneDecisions \cup {Decision(<<"x">>, <<>>, TRUE, 9)}

\* the main loop, the scenes and their post-scene analysis
ShowStep ==
  \/ MainBegin
  \/ MainExit
  \/ MainEnd
  \/ MainPause
  \/ MainDispatch
  \/ SceneReturn
  \/ MainWake
  \/ StartScene
  \/ ExitLoop
  \/ PauseGate
  \/ BeginTurn
  \/ CallGateway
  \/ \E d \in ShowDecisions : GatewayReturn(d)
  \/ PostSkip
  \/ PostAnalyse
  \/ AnalysisReturn(<<"S", current_event>>)
  \/ AdaptStep
  \/ AdaptFailure

\* a performance under pause and start/resume, every collaborator answering
NextShow ==
  \/ ShowStep
  \/ Pause
  \/ Start

SpecShow == InitShowtime /\ [][NextShow]_vars

\* the same performance when calls fail: the gateway, the analysis, the
\* adaptation, the persistence layer
NextFaulty ==
  \/ ShowStep
  \/ GatewayError
  \/ AnalysisError
  \/ DispatchPersistFails
  \/ SceneStartPersistFails
  \/ Pause
  \/ Start

SpecFaulty == InitShowtime /\ [][NextFaulty]_vars

\* a performance of one event with a user who writes to the group (no
\* adaptation: an event is appended only when no event is left to play)
NextEncore ==
  \/ MainBegin
  \/ MainExit
  \/ MainEnd
  \/ MainPause
  \/ MainDispatch
  \/ SceneReturn
  \/ MainWake
  \/ StartScene
  \/ ExitLoop
  \/ PauseGate
  \/ BeginTurn
  \/ CallGateway
  \/ \E d \in GodSceneDecisions : GatewayReturn(d)
  \/ PostSkip
  \/ PostAnalyse
  \/ AnalysisReturn(<<"S", current_event>>)
  \/ Pause
  \/ Start
  \/ UserMessageReceive
  \/ UserMessageDeliver

SpecEncore == InitPerformance(1) /\ [][NextEncore]_vars

\* a performance of one event (no adaptation: nothing follows it) under the
\* whole control surface but jump
NextControl ==
  \/ MainBegin
  \/ MainExit
  \/ MainEnd
  \/ MainPause
  \/ MainDispatch
  \/ SceneReturn
  \/ MainWake
  \/ StartScene
  \/ ExitLoop
  \/ PauseGate
  \/ BeginTurn
  \/ CallGateway
  \/ \E d \in ShowDecisions : GatewayReturn(d)
  \/ PostSkip
  \/ PostAnalyse
  \/ AnalysisReturn(<<"S", current_event>>)
  \/ MainDequeue
  \/ MainApplyRest
  \/ DequeueItem
  \/ ApplyItemRest
  \/ Pause
  \/ Start
  \/ \E new_time \in NewTimes : TimeTravel(new_time)
  \/ (next_inject <= MaxQueued /\ InjectRequest)
  \/ InjectEnqueue

\* a performance of one event
InitControl == InitPerformance(1)

SpecControl == InitControl /\ [][NextControl]_vars

\* the Speak/Pass decision of the scheduler on every (willingness, content)
InitDecisionTable ==
  /\ InitStage /\ InitScene /\ InitGod /\ InitObs /\ InitRest
  /\ characters = <<"A">>
  /\ max_turns = 0
  /\ w_in \in 0..10
  /\ content_in \in TextsUpTo(MaxContentLen)
  /\ is_pass_out = "none"

\* chat_server.py 566-584 on a decision without action
Decide ==
  /\ is_pass_out = "none"
  /\ is_pass_out' = IF IsPass(content_in, <<>>, w_in) THEN "pass" ELSE "speak"
  /\ UNCHANGED <<w_in, content_in>>
  /\ UNCHANGED <<stageVars, eventVars, sceneVars, godVars, obsVars>>
  /\ UNCHANGED <<loopVars, ctlObs, retryVars, unitObs, showVars>>

NextDecisionTable == Decide

SpecDecisionTable == InitDecisionTable /\ [][NextDecisionTable]_vars

\* ------------------------------------------------------------------- claims
\* C1: every scene eventually reaches SCENE_ENDED (its turn loop exits) as
\* long as is_playing stays true and every gateway call returns.
C1_SceneTerminates == <>(pc = "post" \/ ~is_playing)

\* C2: the number of turns executed (gateway calls resolved to Speak or to
\* Pass) never exceeds the event's max_turns.
C2_TurnsWithinMax == turns_executed <= max_turns

\* C3: once N consecutive turns have resolved to Pass (N = number of active
\* actors) the scene has ended and no further gateway call is made; a scene
\* in which every turn is a pass ends after exactly N turns.
C3_ColdFieldEndsScene ==
  /\ (pc # "start" /\ pass_streak >= Len(active_actors)) => scene_ended
  /\ pc = "gateway" => pass_streak < Len(active_actors)
  /\ (pc = "post" /\ end_reason = "cold" /\ turns_executed = pass_streak)
       => turns_executed = Len(active_actors)

C3_Witness ==
  /\ pc = "post"
  /\ end_reason = "cold"
  /\ Len(active_actors) = 3
  /\ turns_executed = 3
  /\ pass_streak = 3
  /\ max_turns > 0

\* C4: when a scene ends by cold field, every active actor has itself
\* passed since the last Speak turn.
C4_ColdFieldEveryonePassed ==
  end_reason = "cold" => SeqElems(active_actors) \subseteq passed_since_speak

\* C5 as stated: no three consecutive dialogue entries produced by the
\* scheduler have the same speaker.
C5_NoThreeEntriesInARow ==
  \A i \in 1..(Len(active_scene_chat_history) - 2) :
    ~(/\ active_scene_chat_history[i].name
           = active_scene_chat_history[i + 1].name
      /\ active_scene_chat_history[i + 1].name
           = active_scene_chat_history[i + 2].name)

\* C5 amended: no actor takes more than two Speak (non-pass) turns in a row,
\* a revoke turn counting as a Speak turn; the gateway is never called for a
\* candidate that is the previous speaker with two consecutive Speak turns.
C5_NoThreeSpeakTurnsInARow ==
  /\ \A i \in 1..(Len(speak_turns) - 2) :
       ~(speak_turns[i] = speak_turns[i + 1]
           /\ speak_turns[i + 1] = speak_turns[i + 2])
  /\ pc = "gateway" =>
       ~(char_name = prev_speaker_name
           /\ consecutive_speech_count >= MonopolyCap)

C5_Witness ==
  /\ pc = "skip"
  /\ Len(active_actors) >= 2
  /\ char_name = prev_speaker_name
  /\ consecutive_speech_count = MonopolyCap
  /\ Len(speak_turns) >= 2

\* C6: a decision with is_finished = true ends the scene with that turn,
\* whatever its content and willingness.
C6_FinishEndsScene == last_turn.is_finished => scene_ended

\* C7: a decision whose content is identical to the content of a recent
\* Blackboard dialogue entry is resolved as Pass.
C7_DuplicateIsPass == last_turn.duplicate => last_turn.resolved = "pass"

\* C8: the scheduler's Speak/Pass decision agrees with the predicate of the
\* willingness tests on every (willingness, content).
C8_AgreesWithTest ==
  is_pass_out # "none" =>
    ((is_pass_out = "pass") <=> TestIsSilence(w_in, content_in))

\* C9: every injected event enqueued for an actor before its turn assembles
\* its context is contained in the memory view handed to the gateway.
C9_InjectionVisible ==
  pc = "gateway" =>
    due_at_turn \subseteq {e[2] : e \in {m \in SeqElems(context.memories) :
                                            m[1] # "said"}}

\* C10: the queue is drained FIFO, one item fully applied at a time, and is
\* empty when a speaker is selected.
PositionIn(log, id) == CHOOSE i \in 1..Len(log) : log[i] = id

C10_FifoDrain ==
  /\ Len(deq_log) <= Len(enq_log)
  /\ deq_log = SubSeq(enq_log, 1, Len(deq_log))
  /\ \A i, j \in 1..Len(write_log) :
       i < j => PositionIn(enq_log, write_log[i])
                  <= PositionIn(enq_log, write_log[j])
  /\ pc = "applying" => ext_event.id = deq_log[Len(deq_log)]
  /\ queue_at_select = 0
  /\ pc = "gateway" /\ eventQueue = <<>> => deq_log = enq_log

C10_Witness ==
  /\ pc = "gateway"
  /\ Len(deq_log) = MaxInject
  /\ deq_log[1] > deq_log[2]
  /\ Len(write_log) > Len(deq_log)

\* C11: after jump(i) with i in range, the next script event the main loop
\* dispatches is event i, wherever the loop task was when jump was called.
C11_JumpDispatchesTarget ==
  dispatch_obs.after_jump # -1 => dispatch_obs.event = dispatch_obs.after_jump

\* C12: current_index stays within 0..len(script), decreases only as the
\* direct effect of a jump call with an in-range index, and a jump with an
\* index out of range changes nothing.  (initialize starts a new performance
\* at index 0; that reset is not counted as a decrease here.)
C12_CursorMonotonic ==
  /\ [](0 <= current_index /\ current_index <= script_len)
  /\ [][current_index' < current_index =>
         \/ \E index \in 0..(script_len - 1) : jump(index)
         \/ \E n \in 0..MaxScript : initialize(n)]_vars
  /\ [][\A index \in (-1)..MaxScript :
         (jump(index) /\ ~InRange(index)) =>
           UNCHANGED <<stageVars, eventVars, sceneVars, godVars, loopVars>>]_vars

\* C13 as stated: no gateway call begins at a moment when is_playing is
\* false.
C13_NoCallWhilePaused == [][(pc = "thinking" /\ pc' = "gateway") => is_playing]_vars

\* C13 amended: the pause flag is checked once per iteration, at the head of
\* the turn loop: once is_playing is false at most one more gateway call
\* begins (the turn whose pause check had already passed), and from the
\* pause gate no turn starts until is_playing is true again.
C13_AtMostOneCallPerPause ==
  /\ paused_calls <= 1
  /\ is_playing => paused_calls = 0
  /\ (pc = "pause" /\ ~is_playing) => ~ENABLED BeginTurn

C13_Witness ==
  /\ pc = "pause"
  /\ ~is_playing
  /\ paused_calls = 1
  /\ turns_executed >= 1

\* C14: when the stop signal ("stop" / pause) arrives while a gateway call is
\* in flight, the result of that call is discarded: no dialogue entry, no
\* history entry and no memory entry is committed.
C14_StoppedResultDiscarded ==
  [][(pc = "gateway" /\ stop_during_call /\ pc' # "gateway") =>
       UNCHANGED <<active_scene_chat_history, blackboard_dialogue,
                   actor_memories>>]_vars

\* C15: when the LLM call raises or its output cannot be parsed, perform
\* returns the default decision ("[PASS]", willingness 0, not finished); the
\* scheduler resolves it as a Pass turn (silence count + 1, Blackboard,
\* history and memory unchanged), and a scene whose gateway always fails ends
\* by cold field.
C15_FailureIsPass ==
  /\ \A o \in FailureOutcomes :
       /\ perform(o).content = <<PassMarker>>
       /\ perform(o).willingness = 0
       /\ ~perform(o).is_finished
  /\ [][(pc = "gateway" /\ pc' # "gateway") =>
          /\ last_turn'.resolved = "pass"
          /\ consecutive_silence_count' = consecutive_silence_count + 1
          /\ UNCHANGED <<active_scene_chat_history, blackboard_dialogue,
                         actor_memories>>]_vars
  /\ []((pc = "post" /\ max_turns > 0) => end_reason = "cold")
  /\ (<>[]is_playing) => <>(pc = "post")

C15_Witness ==
  /\ pc = "post"
  /\ end_reason = "cold"
  /\ Len(active_actors) = 2
  /\ turns_executed = 2
  /\ consecutive_silence_count = 2

\* C16: the retrying call makes at most 5 attempts per request and always
\* hands a value (a decision, or a default / error value) back to its
\* caller; it never raises.
C16_BoundedAndReturns ==
  /\ r_calls <= MaxRetries
  /\ r_pc # "raised"
  /\ r_pc = "returned" => r_result # "none"

\* the error text e names a delay of x tenths of a second: it contains
\* "retry in <x>s" or "retry after <x>", in any letter case
NamesDelay(e, x) ==
  \E i \in 1..(Len(e) - 1) :
    /\ e[i + 1] \in DOMAIN NumVal
    /\ NumVal[e[i + 1]] = x
    /\ \/ LowerText(e)[i] = "retry after "
       \/ /\ LowerText(e)[i] = "retry in "
          /\ i + 2 <= Len(e)
          /\ LowerText(e)[i + 2] = "s"

LooksLikeQuota(e) ==
  \E i \in 1..Len(e) : LowerText(e)[i] \in {"429", "quota", "resource_exhausted"}

\* C17: the wait of _query after failed attempt k (k < 4) with error text e
\* is max(2*2^k + jitter, X + 1.5) when e names a delay X, else
\* max(2*2^k + jitter, 10) when e looks like quota exhaustion, else
\* 2*2^k + jitter, with jitter in [0, 1); "retry in 5.2s" on the first
\* failure gives a wait of at least 6.7 s.
C17_WaitMatchesReference ==
  [][(r_fn = "query" /\ r_pc = "calling" /\ r_pc' = "sleeping") =>
       LET k == r_attempt
           e == ExceptionText(r_last_outcome')
           exponential == 20 * Pow2(k) + r_jitter'
       IN /\ k < 4
          /\ r_jitter' \in 0..9
          /\ IF \E x \in 0..1000 : NamesDelay(e, x)
               THEN \E x \in 0..1000 :
                      NamesDelay(e, x) /\ r_wait' = Max(exponential, x + 15)
             ELSE IF LooksLikeQuota(e)
               THEN r_wait' = Max(exponential, 100)
             ELSE r_wait' = exponential
          /\ (k = 0 /\ NamesDelay(e, 52)) => r_wait' >= 67]_vars

C17_Witness ==
  /\ r_fn = "query"
  /\ r_pc = "sleeping"
  /\ r_attempt = 0
  /\ r_wait = 67
  /\ r_last_outcome.text = <<"x", " ", "retry in ", "5.2", "s">>

\* C18: an error of the malformed-request class (HTTP 400 / invalid request)
\* ends the call at the attempt that met it: no backoff sleep and no further
\* attempt, whichever exception class reports it.
C18_BadRequestFailsFast ==
  [][(r_pc = "calling" /\ r_pc' # "calling" /\ r_last_outcome'.bad_request)
       => (r_pc' \in {"returned", "raised"} /\ r_sleeps' = r_sleeps)]_vars

\* C19: the short-term list of a MemoryBank never holds more than 10
\* entries and always equals the last min(10, number of adds) added items in
\* insertion order (the oldest entry is evicted first).
C19_ShortTermIsLastTen ==
  LET short_term == actor_memories["A"]
      total == Len(mem_added)
      kept == IF total < 10 THEN total ELSE 10
  IN /\ Len(short_term) <= 10
     /\ Len(short_term) = kept
     /\ \A i \in 1..kept : short_term[i] = mem_added[total - kept + i]

C19_Witness ==
  /\ Len(mem_added) = MaxAdds
  /\ Len(actor_memories["A"]) = MaxShortTerm
  /\ actor_memories["A"][1] # mem_added[1]
  /\ actor_memories["A"][MaxShortTerm] # mem_added[1]

\* the lines of a text: str.split("\n")
RECURSIVE SplitLines(_, _)
SplitLines(text, line) ==
  IF text = <<>> THEN <<line>>
  ELSE IF Head(text) = "\n" THEN <<line>> \o SplitLines(Tail(text), <<>>)
  ELSE SplitLines(Tail(text), Append(line, Head(text)))

\* C20: after any sequence of add_dialogue(speaker, content) calls,
\* get_recent_dialogue_struct(n) is the last min(n, total) entries as
\* {speaker, content} records in insertion order, and get_recent_dialogue(n)
\* is the same entries as "speaker: content" lines joined by newlines.
C20_RecentDialogueViews ==
  \A n \in 1..(MaxDialogue + 1) :
    LET total == Len(dlg_added)
        k == IF n < total THEN n ELSE total
        struct == get_recent_dialogue_struct(blackboard_dialogue, n)
        flat == get_recent_dialogue(blackboard_dialogue, n)
    IN /\ Len(struct) = k
       /\ \A i \in 1..k :
            /\ struct[i].speaker = dlg_added[total - k + i][1]
            /\ struct[i].content = dlg_added[total - k + i][2]
       /\ IF k = 0 THEN flat = <<>>
          ELSE /\ Len(SplitLines(flat, <<>>)) = k
               /\ \A i \in 1..k :
                    SplitLines(flat, <<>>)[i] =
                      <<dlg_added[total - k + i][1], ": ">>
                        \o dlg_added[total - k + i][2]

C20_Witness ==
  /\ Len(dlg_added) = MaxDialogue
  /\ dlg_added[1] # dlg_added[MaxDialogue]
  /\ Len(get_recent_dialogue_struct(blackboard_dialogue, 2)) = 2
  /\ get_recent_dialogue_struct(blackboard_dialogue, 2)[2].speaker = "Gaia"

\* the adapt_script calls made for the scene of event k
AdaptCallsFor(k) == {i \in 1..Len(adapt_log) : adapt_log[i].scene = k}

\* C21: when the scene of a script event that has a successor is over,
\* adapt_script has been called exactly once for it, with the summary of that
\* scene and the plan (timeline, event, goal) of the event that follows it,
\* whichever way the scene ended (explicit signal, cold field, max_turns).
C21_AdaptedOncePerScene ==
  (mpc = "scene" /\ pc = "return" /\ current_event + 1 < script_len
     /\ end_reason \in {"finished", "cold", "max_turns"}) =>
    /\ Cardinality(AdaptCallsFor(current_event)) = 1
    /\ \A i \in AdaptCallsFor(current_event) :
         /\ adapt_log[i].summary = <<"S", current_event>>
         /\ adapt_log[i].plan = PlanOf(Event(current_event + 2))

\* every plan adapt_script can return for an event of the script
ReturnablePlans ==
  UNION {AdaptedPlans(PlanOf(script[i])) : i \in 1..Len(script)}

C23_LoopSurvivesFailures == mpc # "crashed"

\* the number of times request `id` has been put on the queue
TimesEnqueued(id) == Cardinality({i \in 1..Len(enq_log) : enq_log[i] = id})

\* C24: start, pause and time_travel(t) are idempotent on the engine state
\* (is_playing, current_index, script, queue, number of running main loops,
\* fresh-start flag): the state a call leaves is a state the same call leaves
\* unchanged.  Every inject call puts exactly one item at the end of the queue
\* and keeps the items already queued.
C24_ControlIdempotent ==
  /\ [](\A id \in 1..(next_inject - 1) :
          TimesEnqueued(id) = IF id \in inflight THEN 0 ELSE 1)
  /\ [][/\ Start =>
            /\ Engine' = start(Engine)
            /\ start(Engine') = Engine'
        /\ Pause =>
            /\ Engine' = pause(Engine)
            /\ pause(Engine') = Engine'
        /\ \A new_time \in NewTimes :
             TimeTravel(new_time) =>
               /\ Engine' = time_travel(Engine, new_time)
               /\ time_travel(Engine', new_time) = Engine'
        /\ InjectEnqueue =>
            /\ Len(eventQueue') = Len(eventQueue) + 1
            /\ SubSeq(eventQueue', 1, Len(eventQueue)) = eventQueue]_vars

C24_Witness ==
  /\ ~is_playing
  /\ is_fresh_start
  /\ mpc = "begin"
  /\ Len(eventQueue) = MaxQueued
  /\ script[1].timeline = <<"now">>

\* C25: while a turn is in progress, the Blackboard, the scene chat history
\* and the MemoryBanks are written by the scene loop only: a step that
\* changes one of them is a step of the scene loop.
C25_SingleWriter ==
  [][(pc \in {"thinking", "gateway"}
        /\ <<blackboard_dialogue, active_scene_chat_history, actor_memories>>'
             # <<blackboard_dialogue, active_scene_chat_history, actor_memories>>)
       => pc' # pc]_vars

\* C27: whenever is_playing is true and current_index < len(script), a
\* main-loop task is alive.
C27_LoopAliveWhilePlaying ==
  (is_playing /\ current_index < script_len)
    => mpc \notin {"idle", "done", "crashed"}

\* the number of entries `speaker` has with the full message m in the scene
\* chat history, in the Blackboard dialogue log and in its own memory
InHistory(speaker, m) ==
  Cardinality({i \in 1..Len(active_scene_chat_history) :
                 /\ active_scene_chat_history[i].name = speaker
                 /\ FullMsg(active_scene_chat_history[i].content,
                            active_scene_chat_history[i].action) = m})

InBlackboard(speaker, m) ==
  Cardinality({i \in 1..Len(blackboard_dialogue) :
                 /\ blackboard_dialogue[i].speaker = speaker
                 /\ blackboard_dialogue[i].content = m})

InMemory(speaker, m) ==
  Cardinality({i \in 1..Len(actor_memories[speaker]) :
                 actor_memories[speaker][i] = <<"said", m>>})

SpokenMessages ==
  {FullMsg(active_scene_chat_history[i].content,
           active_scene_chat_history[i].action) :
     i \in 1..Len(active_scene_chat_history)}
    \cup {blackboard_dialogue[i].content : i \in 1..Len(blackboard_dialogue)}

\* C26: when a turn's context is assembled, every earlier Speak turn of the
\* scene is in all three of the scene chat history, the Blackboard dialogue
\* log and the speaker's memory, or in none of them.
C26_NoHalfCommittedTurn ==
  pc = "thinking" =>
    \A speaker \in ActorNames : \A m \in SpokenMessages :
      /\ InHistory(speaker, m) = InBlackboard(speaker, m)
      /\ InHistory(speaker, m) = InMemory(speaker, m)

\* ------------------------------------------- a second initialize() request
\* InitRequest.actors of a later request: the same cast or a smaller one
RequestCasts == {{"A", "B"}, ActorNames}

\* POST /init arriving at any await of a performance that was initialised
\* for ActorNames: the loop task, a user message and the inject requests of
\* the previous performance may all be under way
Reinitialize == \E cast \in RequestCasts : \E n \in 1..MaxScript :
                  initialize_req(cast, n)

NextReinit ==
  \/ MainBegin
  \/ MainExit
  \/ MainEnd
  \/ MainPause
  \/ MainDispatch
  \/ MainDequeue
  \/ MainApplyRest
  \/ SceneReturn
  \/ MainWake
  \/ StartScene
  \/ ExitLoop
  \/ PauseGate
  \/ DequeueItem
  \/ ApplyItemRest
  \/ BeginTurn
  \/ CallGateway
  \/ \E d \in GodSceneDecisions : GatewayReturn(d)
  \/ PostSkip
  \/ PostAnalyse
  \/ AnalysisReturn(<<"S", current_event>>)
  \/ Start
  \/ (next_inject <= 1 /\ InjectRequest)
  \/ InjectEnqueue
  \/ Reinitialize

SpecReinit == InitPerformance(1) /\ [][NextReinit]_vars

\* C28: after initialize(req) the registries and the memories have exactly
\* the actor names of req as keys, the injected-event queue and the scene chat
\* history are empty, current_index is 0 and is_playing is false.
C28_InitializeReflectsRequest ==
  [][Reinitialize =>
       /\ llm_clients' = actors'
       /\ crew_actors' = actors'
       /\ DOMAIN actor_memories' = actors'
       /\ eventQueue' = <<>>
       /\ active_scene_chat_history' = <<>>
       /\ current_index' = 0
       /\ ~is_playing']_vars

\* C29: every scene after the first one of a performance begins with an empty
\* scene chat history, also when the performance was paused and resumed
\* during the scene before it.
C29_LaterSceneStartsEmpty ==
  [][(StartScene /\ current_event >= 1)
       => active_scene_chat_history' = <<>>]_vars

\* C30: injected events reach the actor memories in the order in which the
\* inject operations were requested (request ids are handed out in request
\* order), also when two requests wait for the GodDirector at the same time.
C30_AppliedInRequestOrder ==
  \A i, j \in 1..Len(write_log) : i < j => write_log[i] <= write_log[j]

====
